---- MODULE Spec2Model ----
(***************************************************************************)
(* Admission control of the MaxMovies AI proxy: the composite rate limiter *)
(* (RateLimiter in src/api/maxmovies/route.js) over its file-per-key       *)
(* store, and the POST handler that charges and refunds the token budget.  *)
(* Time is Date.now() in milliseconds, counted from a UTC midnight.        *)
(***************************************************************************)
EXTENDS Integers, Sequences, FiniteSets, TLC

VARIABLES now, files, memory, lastIndex, last, prev, served, ops, calls

vars == <<now, files, memory, lastIndex, last, prev, served, ops, calls>>

(* ---------------- program constants ---------------- *)

requestsPerMinute == 30
requestsPerHour == 200
burstWindowMs == 10000
burstMax == 5
dailyTokens == 100000
MinuteWindowMs == 60000
HourWindowMs == 3600000
IpMax == 1000
DailyRetryAfter == 86400
MsPerSecond == 1000
DayMs == 86400000

(* ---------------- bounds of the model ---------------- *)

\* Number of operations (calls, requests) in one behaviour.
MaxOps == 3
\* Milliseconds the clock may advance between the check phase and the
\* commit phase of one checkLimit call.
MaxDrift == 1

(* ---------------- strings ---------------- *)

\* Strings are sequences of one-character strings, so that keys can be
\* concatenated and compared as the code's template strings are.
Underscore == <<"_">>

UserAna == <<"a", "n", "a">>
UserBob == <<"b", "o", "b">>
Users == {UserAna, UserBob}

IpOne == <<"1", ".", "1">>
Ips == {IpOne}

\* A user id with an underscore, and the client addresses that requests
\* with an x-forwarded-for header of their own choice present.
UserAna1 == <<"a", "n", "a", "_", "1">>
IpTwo == <<"2">>
IpOneTwo == <<"1", "_", "2">>
ForwardedUsers == {UserAna, UserAna1}
ForwardedIps == {IpTwo, IpOneTwo}

MinuteKey(userId, ip) == <<"m", "i", "n", "u", "t", "e">> \o Underscore \o userId \o Underscore \o ip
HourKey(userId, ip) == <<"h", "o", "u", "r">> \o Underscore \o userId \o Underscore \o ip
BurstKey(userId, ip) == <<"b", "u", "r", "s", "t">> \o Underscore \o userId \o Underscore \o ip
TokenKey(userId) == <<"t", "o", "k", "e", "n", "s">> \o Underscore \o userId
IpKey(ip) == <<"i", "p">> \o Underscore \o ip

\* The keys of the requests with a forwarded address.
ForwardedWindowKeys ==
  {MinuteKey(u, i) : u \in ForwardedUsers, i \in ForwardedIps}
    \cup {HourKey(u, i) : u \in ForwardedUsers, i \in ForwardedIps}
    \cup {BurstKey(u, i) : u \in ForwardedUsers, i \in ForwardedIps}
    \cup {IpKey(i) : i \in ForwardedIps}

WindowKeys ==
  {MinuteKey(u, i) : u \in Users, i \in Ips} \cup {HourKey(u, i) : u \in Users, i \in Ips}
    \cup {BurstKey(u, i) : u \in Users, i \in Ips} \cup {IpKey(i) : i \in Ips}
    \cup ForwardedWindowKeys
TokenKeys == {TokenKey(u) : u \in Users \cup ForwardedUsers}
AllKeys == WindowKeys \cup TokenKeys

(* ---------------- the store: one file per key ---------------- *)

\* A key with no file.
NoFile == [kind |-> "none"]
\* File content that JSON.parse rejects (or a file that cannot be read).
Corrupt == [kind |-> "corrupt"]

WindowData(count, resetAt, firstRequest) ==
  [kind |-> "window", count |-> count, resetAt |-> resetAt, firstRequest |-> firstRequest]
TokenData(total) == [kind |-> "tokens", total |-> total]

\* A file: its content and the time of its last write (mtime).
File(data, mtime) == [kind |-> "file", data |-> data, mtime |-> mtime]

Exists(f) == f.kind = "file"
Readable(f) == Exists(f) /\ f.data.kind # "corrupt"

(* ---------------- RateLimiter ---------------- *)

\* A division that rounds down instead of up.
FloorDiv(a, b) == a \div b

\* Math.ceil(a / b) for b > 0.
CeilDiv(a, b) == -((-a) \div b)

Max(a, b) == IF a >= b THEN a ELSE b

FreshWindow(t, windowMs) == WindowData(0, t + windowMs, t)

\* getLimit(key, windowMs) with Date.now() = t, on the key's file f.
GetLimit(f, t, windowMs) ==
  IF Readable(f)
    THEN IF t > f.data.resetAt THEN FreshWindow(t, windowMs) ELSE f.data
    ELSE FreshWindow(t, windowMs)

\* An updateLimit that increments the stored record whatever its resetAt.
UpdateLimitStale(f, tU, tG, windowMs) ==
  LET data == IF Readable(f) THEN f.data ELSE FreshWindow(tG, windowMs)
  IN File([data EXCEPT !.count = data.count + 1], tG)

\* An updateLimit that counts every request twice.
UpdateLimitTwice(f, tU, tG, windowMs) ==
  LET data == GetLimit(f, tG, windowMs)
  IN File([data EXCEPT !.count = data.count + 2], tG)

\* updateLimit(key, windowMs): tU is its own Date.now(), tG the one of the
\* getLimit it calls (tU <= tG). The result is the file it writes.
UpdateLimit(f, tU, tG, windowMs) ==
  LET data == GetLimit(f, tG, windowMs)
      inc == [data EXCEPT !.count = data.count + 1]
      out == IF tU > inc.resetAt
               THEN WindowData(1, tU + windowMs, tU)
               ELSE inc
  IN File(out, tG)

\* midnight.setUTCHours(24, 0, 0, 0) on new Date() = t: the next UTC midnight.
MidnightTime(t) == ((t \div DayMs) + 1) * DayMs

\* getDailyTokens(key) with Date.now() = t.
GetDailyTokens(f, t) ==
  IF Readable(f)
    THEN IF t > MidnightTime(t) THEN 0 ELSE f.data.total
    ELSE 0

\* An updateDailyTokens that assigns the amount instead of adding it.
UpdateDailyTokensAssigns(f, t, tokens) ==
  IF Exists(f) /\ ~Readable(f) THEN f ELSE File(TokenData(tokens), t)

\* updateDailyTokens(key, tokens) with Date.now() = t: the file afterwards.
\* A file that cannot be parsed throws into the catch: nothing is written.
UpdateDailyTokens(f, t, tokens) ==
  IF Exists(f) /\ ~Readable(f)
    THEN f
    ELSE LET total == IF Exists(f) THEN f.data.total ELSE 0
         IN File(TokenData(IF t > MidnightTime(t) THEN tokens ELSE total + tokens), t)

\* The five conditions of checkLimit, each on what its read returned.
MinuteViolated(count) == count >= requestsPerMinute
HourViolatedStrict(count) == count > requestsPerHour
HourViolated(count) == count >= requestsPerHour
BurstViolatedStrict(count) == count > burstMax
BurstViolated(count) == count >= burstMax
TokenViolated(tokenUsage, tokens) == tokenUsage + tokens > dailyTokens
IpViolated(count) == count > IpMax

MinuteText == "Minute limit (30/min)"
HourText == "Hour limit (200/hour)"
BurstText == "Burst limit (5/10s)"
TokenText == "Daily token limit (100000)"
IpText == "IP limit exceeded"

\* The verdict checkLimit starts from.
InitialLimits(t) ==
  [allowed |-> TRUE, violations |-> <<>>, retryAfter |-> 0, resetAt |-> t + MinuteWindowMs]

\* A failed window check that forgets to clear allowed.
WindowViolationKeepsAllowed(limits, text, limit, t) ==
  [limits EXCEPT !.violations = Append(@, text),
                 !.retryAfter = Max(@, CeilDiv(limit.resetAt - t, MsPerSecond))]

\* A failed window check that assigns its delay instead of taking the maximum.
WindowViolationAssigns(limits, text, limit, t) ==
  [limits EXCEPT !.allowed = FALSE,
                 !.violations = Append(@, text),
                 !.retryAfter = CeilDiv(limit.resetAt - t, MsPerSecond)]

\* The body of a failed window check: allowed, violations.push, retryAfter.
WindowViolation(limits, text, limit, t) ==
  [limits EXCEPT !.allowed = FALSE,
                 !.violations = Append(@, text),
                 !.retryAfter = Max(@, CeilDiv(limit.resetAt - t, MsPerSecond))]

\* The body of the failed daily token check.
TokenViolation(limits) ==
  [limits EXCEPT !.allowed = FALSE,
                 !.violations = Append(@, TokenText),
                 !.retryAfter = DailyRetryAfter]

\* A check phase that returns at the first violation.
CheckPhaseShortCircuit(fs, userId, ip, tokens, t) ==
  LET minuteLimit == GetLimit(fs[MinuteKey(userId, ip)], t, MinuteWindowMs)
      hourLimit == GetLimit(fs[HourKey(userId, ip)], t, HourWindowMs)
      burstLimit == GetLimit(fs[BurstKey(userId, ip)], t, burstWindowMs)
      tokenUsage == GetDailyTokens(fs[TokenKey(userId)], t)
      ipLimit == GetLimit(fs[IpKey(ip)], t, HourWindowMs)
      l0 == InitialLimits(t)
  IN IF MinuteViolated(minuteLimit.count) THEN WindowViolation(l0, MinuteText, minuteLimit, t)
     ELSE IF HourViolated(hourLimit.count) THEN WindowViolation(l0, HourText, hourLimit, t)
     ELSE IF BurstViolated(burstLimit.count) THEN WindowViolation(l0, BurstText, burstLimit, t)
     ELSE IF TokenViolated(tokenUsage, tokens) THEN TokenViolation(l0)
     ELSE IF IpViolated(ipLimit.count) THEN WindowViolation(l0, IpText, ipLimit, t)
     ELSE l0

\* The check phase of checkLimit(userId, ip, tokens): t is the Date.now()
\* of checkLimit and of every read it makes, fs the store it reads.
CheckPhase(fs, userId, ip, tokens, t) ==
  LET minuteLimit == GetLimit(fs[MinuteKey(userId, ip)], t, MinuteWindowMs)
      hourLimit == GetLimit(fs[HourKey(userId, ip)], t, HourWindowMs)
      burstLimit == GetLimit(fs[BurstKey(userId, ip)], t, burstWindowMs)
      tokenUsage == GetDailyTokens(fs[TokenKey(userId)], t)
      ipLimit == GetLimit(fs[IpKey(ip)], t, HourWindowMs)
      l0 == InitialLimits(t)
      l1 == IF MinuteViolated(minuteLimit.count)
              THEN WindowViolation(l0, MinuteText, minuteLimit, t) ELSE l0
      l2 == IF HourViolated(hourLimit.count)
              THEN WindowViolation(l1, HourText, hourLimit, t) ELSE l1
      l3 == IF BurstViolated(burstLimit.count)
              THEN WindowViolation(l2, BurstText, burstLimit, t) ELSE l2
      l4 == IF TokenViolated(tokenUsage, tokens) THEN TokenViolation(l3) ELSE l3
      l5 == IF IpViolated(ipLimit.count)
              THEN WindowViolation(l4, IpText, ipLimit, t) ELSE l4
  IN l5

\* The commit phase: the five updates, in the code's order, at time t.
CommitPhase(fs, userId, ip, tokens, t) ==
  LET f1 == [fs EXCEPT ![MinuteKey(userId, ip)] = UpdateLimit(@, t, t, MinuteWindowMs)]
      f2 == [f1 EXCEPT ![HourKey(userId, ip)] = UpdateLimit(@, t, t, HourWindowMs)]
      f3 == [f2 EXCEPT ![BurstKey(userId, ip)] = UpdateLimit(@, t, t, burstWindowMs)]
      f4 == [f3 EXCEPT ![TokenKey(userId)] = UpdateDailyTokens(@, t, tokens)]
      f5 == [f4 EXCEPT ![IpKey(ip)] = UpdateLimit(@, t, t, HourWindowMs)]
  IN f5

\* A checkLimit that runs its updates whatever the verdict.
AfterCheckLimitAlways(fs, limits, userId, ip, tokens, t) ==
  CommitPhase(fs, userId, ip, tokens, t)

\* The store after checkLimit with verdict limits: updated only if allowed.
AfterCheckLimit(fs, limits, userId, ip, tokens, t) ==
  IF limits.allowed THEN CommitPhase(fs, userId, ip, tokens, t) ELSE fs

\* A write whose failure is not caught: the exception leaves the commit
\* phase, and the writes after it are not made.
WriteFileSyncUncaught(st, key, file, failed) ==
  IF st.threw THEN st
  ELSE IF key \in failed THEN [st EXCEPT !.threw = TRUE]
  ELSE [st EXCEPT !.files[key] = file]

\* try { fs.writeFileSync(filePath, ...) } catch (err) { console.warn(...) }
\* of updateLimit and updateDailyTokens: failed is the set of keys whose
\* write throws; st is the store and whether an exception left the call.
WriteFileSync(st, key, file, failed) ==
  IF st.threw THEN st
  ELSE IF key \in failed THEN st
  ELSE [st EXCEPT !.files[key] = file]

\* The commit phase when the writes of the keys in failed throw.
CommitWithFailures(fs, userId, ip, tokens, t, failed) ==
  LET s0 == [files |-> fs, threw |-> FALSE]
      s1 == WriteFileSync(s0, MinuteKey(userId, ip),
                          UpdateLimit(s0.files[MinuteKey(userId, ip)], t, t, MinuteWindowMs), failed)
      s2 == WriteFileSync(s1, HourKey(userId, ip),
                          UpdateLimit(s1.files[HourKey(userId, ip)], t, t, HourWindowMs), failed)
      s3 == WriteFileSync(s2, BurstKey(userId, ip),
                          UpdateLimit(s2.files[BurstKey(userId, ip)], t, t, burstWindowMs), failed)
      s4 == WriteFileSync(s3, TokenKey(userId),
                          UpdateDailyTokens(s3.files[TokenKey(userId)], t, tokens), failed)
      s5 == WriteFileSync(s4, IpKey(ip),
                          UpdateLimit(s4.files[IpKey(ip)], t, t, HourWindowMs), failed)
  IN s5

\* checkLimit after its checks, when the writes of the keys in failed throw:
\* the store afterwards and whether an exception left the call.
AfterCheckLimitWithFailures(fs, limits, userId, ip, tokens, t, failed) ==
  IF limits.allowed
    THEN CommitWithFailures(fs, userId, ip, tokens, t, failed)
    ELSE [files |-> fs, threw |-> FALSE]

(* ---- checkLimit as the sequence of its file-system calls ---- *)

\* Two calls of checkLimit in progress at once.
CallIds == {1, 2}

\* What a read leaves when readFileSync or JSON.parse throws.
Unreadable == File(Corrupt, 0)

\* A read outside any try: the exception leaves checkLimit.
ReadFileSyncUncaught(f) ==
  [view |-> IF Readable(f) THEN f ELSE Unreadable, threw |-> ~Readable(f)]

\* JSON.parse(fs.readFileSync(filePath)) inside the try of getLimit,
\* getDailyTokens and updateDailyTokens, on the file f as it is now: a file
\* that is gone (ENOENT) or empty (SyntaxError) throws into the catch.
ReadFileSync(f) ==
  [view |-> IF Readable(f) THEN f ELSE Unreadable, threw |-> FALSE]

\* A call of checkLimit: where it is (phase, the key it is at, the next
\* file-system call), its arguments, its Date.now(), its verdict so far, the
\* record it is about to write, and the contention it has met.
IdleCall ==
  [phase |-> "idle", key |-> 1, sub |-> "exists", userId |-> UserAna, ip |-> IpOne,
   tokens |-> 0, t |-> 0, limits |-> InitialLimits(0), held |-> NoFile, saw |-> {}]

StartedCall(userId, ip, tokens, t) ==
  [phase |-> "check", key |-> 1, sub |-> "exists", userId |-> userId, ip |-> ip,
   tokens |-> tokens, t |-> t, limits |-> InitialLimits(t), held |-> NoFile, saw |-> {}]

\* The five keys in the order checkLimit reads and updates them.
KeyOfCall(call) ==
  CASE call.key = 1 -> MinuteKey(call.userId, call.ip)
    [] call.key = 2 -> HourKey(call.userId, call.ip)
    [] call.key = 3 -> BurstKey(call.userId, call.ip)
    [] call.key = 4 -> TokenKey(call.userId)
    [] call.key = 5 -> IpKey(call.ip)

WindowOfCall(call) ==
  CASE call.key = 1 -> MinuteWindowMs
    [] call.key = 2 -> HourWindowMs
    [] call.key = 3 -> burstWindowMs
    [] call.key = 5 -> HourWindowMs

InFlight(call) == call.phase \in {"check", "update"}

\* return limits.
Returned(call, limits) ==
  [call EXCEPT !.phase = "returned", !.key = 1, !.sub = "exists",
               !.limits = limits, !.held = NoFile]

\* The check of the call's key once its read has given view (NoFile when
\* existsSync said no), and the move to the next check, to the updates or
\* to the return.
Checked(call, view, t) ==
  LET l == call.limits
      limit == GetLimit(view, t, WindowOfCall(call))
      l2 == CASE call.key = 1 ->
                   IF MinuteViolated(limit.count)
                     THEN WindowViolation(l, MinuteText, limit, call.t) ELSE l
              [] call.key = 2 ->
                   IF HourViolated(limit.count)
                     THEN WindowViolation(l, HourText, limit, call.t) ELSE l
              [] call.key = 3 ->
                   IF BurstViolated(limit.count)
                     THEN WindowViolation(l, BurstText, limit, call.t) ELSE l
              [] call.key = 4 ->
                   IF TokenViolated(GetDailyTokens(view, t), call.tokens)
                     THEN TokenViolation(l) ELSE l
              [] call.key = 5 ->
                   IF IpViolated(limit.count)
                     THEN WindowViolation(l, IpText, limit, call.t) ELSE l
  IN IF call.key < 5 THEN [call EXCEPT !.limits = l2, !.key = @ + 1, !.sub = "exists"]
     ELSE IF l2.allowed
       THEN [call EXCEPT !.limits = l2, !.phase = "update", !.key = 1, !.sub = "exists"]
     ELSE Returned(call, l2)

\* After the update of the call's key: the next update, or the return.
Updated(call) ==
  IF call.key < 5
    THEN [call EXCEPT !.key = @ + 1, !.sub = "exists", !.held = NoFile]
    ELSE Returned(call, call.limits)

\* The record updateLimit or updateDailyTokens is about to write once its
\* read has given view; updateDailyTokens writes nothing when its read threw.
Prepared(call, view, t) ==
  IF call.key = 4
    THEN IF Exists(view) /\ ~Readable(view)
           THEN Updated(call)
           ELSE [call EXCEPT !.held = UpdateDailyTokens(view, t, call.tokens), !.sub = "open"]
    ELSE [call EXCEPT !.held = UpdateLimit(view, t, t, WindowOfCall(call)), !.sub = "open"]

\* The contention a read has met: the file was there at existsSync and is
\* gone, or is empty because another writer has opened it.
Met(f) == IF ~Exists(f) THEN {"deleted"} ELSE IF ~Readable(f) THEN {"truncated"} ELSE {}

\* The next file-system call of a call, on the store fs at time t: the call
\* and the store afterwards.
\*   exists: fs.existsSync;  read: fs.readFileSync and JSON.parse;
\*   open, write: the two halves of fs.writeFileSync, which truncates the
\*   file when it opens it and then writes the record.
StepOfCall(call, fs, t) ==
  LET k == KeyOfCall(call)
      f == fs[k]
      read == ReadFileSync(f)
      seen == [call EXCEPT !.saw = @ \cup Met(f)]
      same == [call |-> call, files |-> fs]
  IN CASE call.sub = "exists" ->
            IF Exists(f) THEN [same EXCEPT !.call.sub = "read"]
            ELSE IF call.phase = "check" THEN [same EXCEPT !.call = Checked(call, NoFile, t)]
            ELSE [same EXCEPT !.call = Prepared(call, NoFile, t)]
       [] call.sub = "read" ->
            IF read.threw THEN [same EXCEPT !.call.phase = "threw"]
            ELSE IF call.phase = "check" THEN [same EXCEPT !.call = Checked(seen, read.view, t)]
            ELSE [same EXCEPT !.call = Prepared(seen, read.view, t)]
       [] call.sub = "open" ->
            [call |-> [call EXCEPT !.sub = "write"],
             files |-> [fs EXCEPT ![k] = File(Corrupt, t)]]
       [] call.sub = "write" ->
            [call |-> Updated(call),
             files |-> [fs EXCEPT ![k] = IF Exists(f) THEN File(call.held.data, t) ELSE f]]

\* A call that began its run as origin has come to an await: it has
\* returned, or it is about to begin the next getLimit, getDailyTokens,
\* updateLimit or updateDailyTokens, or it is in updateLimit after the
\* getLimit that updateLimit awaits.
AtAwait(call, origin) ==
  \/ ~InFlight(call)
  \/ call.sub = "exists"
  \/ call.sub = "open" /\ call.phase = "update" /\ call.key # 4 /\ origin.sub # "open"

\* The file-system calls a call makes in one process before it gives way at
\* its next await: the whole body of getLimit or getDailyTokens after a check
\* (and the getLimit updateLimit awaits); the write of updateLimit; the whole
\* of updateDailyTokens, which awaits nothing.
RECURSIVE RunOn(_, _, _)
RunOn(st, origin, t) ==
  IF AtAwait(st.call, origin) THEN st ELSE RunOn(StepOfCall(st.call, st.files, t), origin, t)

RunToAwait(call, fs, t) == RunOn(StepOfCall(call, fs, t), call, t)

\* fs.readdirSync(RATE_LIMIT_DIR): the keys that have a file, in one order.
RECURSIVE ReadDir(_)
ReadDir(keys) ==
  IF keys = {} THEN <<>>
  ELSE LET k == CHOOSE x \in keys : TRUE IN <<k>> \o ReadDir(keys \ {k})

Reverse(seq) == [n \in 1..Len(seq) |-> seq[Len(seq) + 1 - n]]

\* A sweep step whose stat error is not caught per file: it leaves the
\* forEach, and the files after it are not looked at.
SweepFileUncaught(st, key, hourAgo, vanished) ==
  IF st.stopped THEN st
  ELSE IF key \in vanished THEN [st EXCEPT !.files[key] = NoFile, !.stopped = TRUE]
  ELSE IF st.files[key].mtime < hourAgo THEN [st EXCEPT !.files[key] = NoFile]
  ELSE st

\* The body of cleanup's forEach for one listed file: vanished are the files
\* another process removed after readdirSync, for which statSync throws into
\* the inner catch.
SweepFile(st, key, hourAgo, vanished) ==
  IF st.stopped THEN st
  ELSE IF key \in vanished THEN [st EXCEPT !.files[key] = NoFile]
  ELSE IF st.files[key].mtime < hourAgo THEN [st EXCEPT !.files[key] = NoFile]
  ELSE st

RECURSIVE SweepFrom(_, _, _, _, _)
SweepFrom(st, listed, n, hourAgo, vanished) ==
  IF n > Len(listed) THEN st
  ELSE SweepFrom(SweepFile(st, listed[n], hourAgo, vanished), listed, n + 1, hourAgo, vanished)

\* cleanup() at Date.now() = t, the directory being listed in the order
\* listed: the store afterwards, and whether the forEach was left early.
Cleanup(fs, t, listed, vanished) ==
  SweepFrom([files |-> fs, stopped |-> FALSE], listed, 1, t - HourWindowMs, vanished)

(* ---------------- text helpers ---------------- *)

UpperCase == <<"A", "B", "C", "D", "E", "F", "G", "H", "I", "J", "K", "L", "M", "N", "O", "P", "Q", "R", "S", "T", "U", "V", "W", "X", "Y", "Z">>
LowerCase == <<"a", "b", "c", "d", "e", "f", "g", "h", "i", "j", "k", "l", "m", "n", "o", "p", "q", "r", "s", "t", "u", "v", "w", "x", "y", "z">>

LowerOf == [n \in 1..26 |-> LowerCase[n]]

\* String.prototype.toLowerCase, one character.
LowerChar(c) ==
  LET hits == {n \in 1..26 : UpperCase[n] = c}
  IN IF hits = {} THEN c ELSE LowerOf[CHOOSE n \in hits : TRUE]

ToLowerCase(text) == [n \in 1..Len(text) |-> LowerChar(text[n])]

\* The characters \s matches, among those the model's texts use.
Whitespace == {" ", "\t", "\n", "\r"}
\* The characters . does not match.
LineTerminators == {"\n", "\r"}
Digits10 == <<"0", "1", "2", "3", "4", "5", "6", "7", "8", "9">>
Digits == {Digits10[n] : n \in 1..10}

\* Number.prototype.toString() of a non-negative integer: its decimal digits.
RECURSIVE NumberToString(_)
NumberToString(n) == IF n < 10 THEN <<Digits10[n + 1]>> ELSE NumberToString(n \div 10) \o <<Digits10[(n % 10) + 1]>>

\* word occurs in text at position n (1-based).
OccursAt(text, n, word) ==
  /\ n >= 1
  /\ n + Len(word) - 1 <= Len(text)
  /\ \A m \in 1..Len(word) : text[n + m - 1] = word[m]

\* String.prototype.includes.
Includes(text, word) == \E n \in 1..(Len(text) + 1) : OccursAt(text, n, word)

\* count copies of one character.
Repeat(c, count) == [n \in 1..count |-> c]

\* Length of the run of one repeated character that starts at position n.
RECURSIVE RunLength(_, _)
RunLength(text, n) ==
  IF n < Len(text) /\ text[n + 1] = text[n] THEN 1 + RunLength(text, n + 1) ELSE 1

\* String.prototype.trim.
RECURSIVE TrimStart(_)
TrimStart(text) ==
  IF text # <<>> /\ Head(text) \in Whitespace THEN TrimStart(Tail(text)) ELSE text

RECURSIVE TrimEnd(_)
TrimEnd(text) ==
  IF text # <<>> /\ text[Len(text)] \in Whitespace
    THEN TrimEnd(SubSeq(text, 1, Len(text) - 1)) ELSE text

Trim(text) == TrimEnd(TrimStart(text))

(* ---------------- SpamDetector ---------------- *)

OfferWords == <<<<"b", "u", "y">>, <<"s", "e", "l", "l">>, <<"c", "h", "e", "a", "p">>, <<"d", "i", "s", "c", "o", "u", "n", "t">>, <<"o", "f", "f", "e", "r">>, <<"d", "e", "a", "l">>>>
AudienceWords == <<<<"f", "o", "l", "l", "o", "w", "e", "r", "s">>, <<"l", "i", "k", "e", "s">>, <<"v", "i", "e", "w", "s">>, <<"s", "u", "b", "s", "c", "r", "i", "b", "e", "r", "s">>>>
UrlSchemes == <<<<"h", "t", "t", "p">>, <<"h", "t", "t", "p", "s">>, <<"f", "t", "p">>>>

suspiciousKeywords ==
  <<<<"c", "a", "s", "i", "n", "o">>,
    <<"g", "a", "m", "b", "l", "i", "n", "g">>,
    <<"p", "o", "r", "n">>,
    <<"x", "x", "x">>,
    <<"v", "i", "a", "g", "r", "a">>,
    <<"c", "i", "a", "l", "i", "s">>,
    <<"c", "r", "y", "p", "t", "o">>,
    <<"b", "i", "t", "c", "o", "i", "n">>,
    <<"i", "n", "v", "e", "s", "t", "m", "e", "n", "t">>,
    <<"e", "a", "r", "n", " ", "m", "o", "n", "e", "y">>,
    <<"w", "o", "r", "k", " ", "f", "r", "o", "m", " ", "h", "o", "m", "e">>,
    <<"c", "l", "i", "c", "k", " ", "h", "e", "r", "e">>,
    <<"b", "i", "t", ".", "l", "y">>,
    <<"t", "i", "n", "y", "u", "r", "l">>,
    <<"s", "h", "o", "r", "t", "u", "r", "l">>,
    <<"a", "d", "f", ".", "l", "y">>,
    <<"p", "r", "e", "s", "c", "r", "i", "p", "t", "i", "o", "n">>,
    <<"d", "r", "u", "g", "s">>,
    <<"m", "e", "d", "i", "c", "a", "t", "i", "o", "n">>,
    <<"l", "o", "t", "t", "e", "r", "y">>,
    <<"b", "e", "t", "t", "i", "n", "g">>>>

gibberishThresholdMicro == 4500000

\* /(buy|sell|cheap|discount|offer|deal)\s+(followers|likes|views|subscribers)/i
MatchesOffer(text) ==
  LET lower == ToLowerCase(text)
  IN \E n \in 1..Len(text), a \in 1..Len(OfferWords) :
       /\ OccursAt(lower, n, OfferWords[a])
       /\ \E k \in 1..(Len(text) - n) :
            /\ \A m \in 0..(k - 1) : text[n + Len(OfferWords[a]) + m] \in Whitespace
            /\ \E b \in 1..Len(AudienceWords) :
                 OccursAt(lower, n + Len(OfferWords[a]) + k, AudienceWords[b])

\* A match of (http|https|ftp):\/\/[^\s]+ starts at position n (1-based).
UrlAt(text, n) ==
  \E a \in 1..Len(UrlSchemes) :
    /\ OccursAt(text, n, UrlSchemes[a] \o <<":", "/", "/">>)
    /\ n + Len(UrlSchemes[a]) + 3 <= Len(text)
    /\ text[n + Len(UrlSchemes[a]) + 3] \notin Whitespace

\* The end (0-based, exclusive) of the match that starts at position n: the
\* greedy [^\s]+ runs to the next whitespace or to the end of the text.
UrlEnd(text, n) ==
  LET stops == {m \in (n + 1)..Len(text) : text[m] \in Whitespace}
  IN IF stops = {} THEN Len(text)
     ELSE (CHOOSE m \in stops : \A o \in stops : m <= o) - 1

\* suspiciousPatterns[1].test(text) of the global (g) pattern: the search
\* starts at lastIndex (0-based) and leaves lastIndex at the end of the match,
\* or at 0 when there is none.
UrlTest(text, startIndex) ==
  LET starts == {n \in (startIndex + 1)..Len(text) : UrlAt(text, n)}
  IN IF startIndex > Len(text) \/ starts = {}
       THEN [matched |-> FALSE, lastIndex |-> 0]
       ELSE [matched |-> TRUE,
             lastIndex |-> UrlEnd(text, CHOOSE n \in starts : \A o \in starts : n <= o)]

\* /[0-9]{16,}/
MatchesDigits(text) ==
  \E n \in 1..Len(text) :
    n + 15 <= Len(text) /\ \A m \in 0..15 : text[n + m] \in Digits

\* A repeated-character pattern that needs 21 characters: /(\S)\1{20,}/
MatchesRepeatedCharLong(text) ==
  \E n \in 1..Len(text) : text[n] \notin Whitespace /\ RunLength(text, n) >= 21

\* /(\S)\1{15,}/
MatchesRepeatedChar(text) ==
  \E n \in 1..Len(text) : text[n] \notin Whitespace /\ RunLength(text, n) >= 16

\* /(.{20,})\1{3,}/
MatchesRepeatedBlock(text) ==
  \E size \in 20..(Len(text) \div 4) :
    \E n \in 1..(Len(text) - 4 * size + 1) :
      /\ \A m \in 0..(size - 1) : text[n + m] \notin LineTerminators
      /\ \A c \in 1..3 : \A m \in 0..(size - 1) : text[n + c * size + m] = text[n + m]

\* The five suspiciousPatterns, by index, given the URL pattern's result.
PatternMatches(text, index, urlMatched) ==
  CASE index = 0 -> MatchesOffer(text)
    [] index = 1 -> urlMatched
    [] index = 2 -> MatchesDigits(text)
    [] index = 3 -> MatchesRepeatedChar(text)
    [] index = 4 -> MatchesRepeatedBlock(text)

\* round(log2(n) * 10^6) for n = 1..128.
Log2Micro ==
  <<0, 1000000, 1584963, 2000000, 2321928, 2584963, 2807355, 3000000, 3169925, 3321928,
     3459432, 3584963, 3700440, 3807355, 3906891, 4000000, 4087463, 4169925, 4247928,
     4321928, 4392317, 4459432, 4523562, 4584963, 4643856, 4700440, 4754888, 4807355,
     4857981, 4906891, 4954196, 5000000, 5044394, 5087463, 5129283, 5169925, 5209453,
     5247928, 5285402, 5321928, 5357552, 5392317, 5426265, 5459432, 5491853, 5523562,
     5554589, 5584963, 5614710, 5643856, 5672425, 5700440, 5727920, 5754888, 5781360,
     5807355, 5832890, 5857981, 5882643, 5906891, 5930737, 5954196, 5977280, 6000000,
     6022368, 6044394, 6066089, 6087463, 6108524, 6129283, 6149747, 6169925, 6189825,
     6209453, 6228819, 6247928, 6266787, 6285402, 6303781, 6321928, 6339850, 6357552,
     6375039, 6392317, 6409391, 6426265, 6442943, 6459432, 6475733, 6491853, 6507795,
     6523562, 6539159, 6554589, 6569856, 6584963, 6599913, 6614710, 6629357, 6643856,
     6658211, 6672425, 6686501, 6700440, 6714246, 6727920, 6741467, 6754888, 6768184,
     6781360, 6794416, 6807355, 6820179, 6832890, 6845490, 6857981, 6870365, 6882643,
     6894818, 6906891, 6918863, 6930737, 6942515, 6954196, 6965784, 6977280, 6988685,
     7000000>>

\* An entropy computed for short texts too.
EntropyOfShortTexts(text) ==
  LET chars == {text[n] : n \in 1..Len(text)}
      Count(c) == Cardinality({n \in 1..Len(text) : text[n] = c})
      RECURSIVE Sum(_)
      Sum(cs) == IF cs = {} THEN 0
                 ELSE LET c == CHOOSE x \in cs : TRUE
                      IN Count(c) * Log2Micro[Count(c)] + Sum(cs \ {c})
  IN IF Len(text) = 0 THEN 0 ELSE Len(text) * Log2Micro[Len(text)] - Sum(chars)

\* calculateEntropy(text) in millionths of a bit, times the text's length:
\* length * log2(length) - sum of count * log2(count) over the characters.
EntropyTimesLength(text) ==
  LET chars == {text[n] : n \in 1..Len(text)}
      Count(c) == Cardinality({n \in 1..Len(text) : text[n] = c})
      RECURSIVE Sum(_)
      Sum(cs) == IF cs = {} THEN 0
                 ELSE LET c == CHOOSE x \in cs : TRUE
                      IN Count(c) * Log2Micro[Count(c)] + Sum(cs \ {c})
  IN IF Len(text) < 10 THEN 0 ELSE Len(text) * Log2Micro[Len(text)] - Sum(chars)

\* entropy > this.gibberishThreshold
HighEntropy(text) == EntropyTimesLength(text) > gibberishThresholdMicro * Len(text)

\* (prompt.match(/(.)\1{10,}/g) || []).length: the non-overlapping greedy
\* matches, counted from position n on.
RECURSIVE RepetitionsFrom(_, _)
RepetitionsFrom(text, n) ==
  IF n > Len(text) THEN 0
  ELSE IF text[n] \notin LineTerminators /\ RunLength(text, n) >= 11
    THEN 1 + RepetitionsFrom(text, n + RunLength(text, n))
    ELSE RepetitionsFrom(text, n + 1)

\* The repetition flag with its count.
DigitText(count) == <<"repetition", count>>

\* The flags of analyze(prompt), in the order they are pushed.
SpamFlags(prompt, urlMatched) ==
  LET lower == ToLowerCase(prompt)
      IndexSeq == <<0, 1, 2, 3, 4>>
      RECURSIVE Patterns(_)
      Patterns(n) == IF n > 5 THEN <<>>
                     ELSE (IF PatternMatches(prompt, IndexSeq[n], urlMatched)
                             THEN <<<<"pattern", IndexSeq[n]>>>> ELSE <<>>) \o Patterns(n + 1)
      RECURSIVE Keywords(_)
      Keywords(n) == IF n > Len(suspiciousKeywords) THEN <<>>
                     ELSE (IF Includes(lower, suspiciousKeywords[n])
                             THEN <<<<"keyword", suspiciousKeywords[n]>>>> ELSE <<>>) \o Keywords(n + 1)
      repeatedChars == RepetitionsFrom(prompt, 1)
  IN (IF Len(prompt) < 2 THEN <<<<"too_short">>>> ELSE <<>>)
     \o (IF Len(prompt) > 2000 THEN <<<<"too_long">>>> ELSE <<>>)
     \o Patterns(1)
     \o Keywords(1)
     \o (IF HighEntropy(prompt) THEN <<<<"high_entropy">>>> ELSE <<>>)
     \o (IF repeatedChars > 0 THEN <<DigitText(repeatedChars)>> ELSE <<>>)

\* A score that adds 20 for every flag.
FlagScoreFlat(flag) == 20

\* What one flag adds to the score.
FlagScore(flag) ==
  CASE flag[1] = "too_short" -> 20
    [] flag[1] = "too_long" -> 15
    [] flag[1] = "pattern" -> 25
    [] flag[1] = "keyword" -> 20
    [] flag[1] = "high_entropy" -> 30
    [] flag[1] = "repetition" -> flag[2] * 10

RECURSIVE SpamScore(_)
SpamScore(flags) == IF flags = <<>> THEN 0 ELSE FlagScore(Head(flags)) + SpamScore(Tail(flags))

\* The text of a flag as analyze pushes it: `pattern_${index}`,
\* `keyword_${keyword}`, `repetition_${repeatedChars}` or a fixed word.
FlagText(flag) ==
  CASE flag[1] = "too_short" -> <<"t", "o", "o", "_", "s", "h", "o", "r", "t">>
    [] flag[1] = "too_long" -> <<"t", "o", "o", "_", "l", "o", "n", "g">>
    [] flag[1] = "pattern" -> <<"p", "a", "t", "t", "e", "r", "n", "_">> \o NumberToString(flag[2])
    [] flag[1] = "keyword" -> <<"k", "e", "y", "w", "o", "r", "d", "_">> \o flag[2]
    [] flag[1] = "high_entropy" -> <<"h", "i", "g", "h", "_", "e", "n", "t", "r", "o", "p", "y">>
    [] flag[1] = "repetition" ->
         <<"r", "e", "p", "e", "t", "i", "t", "i", "o", "n", "_">> \o NumberToString(flag[2])

\* result.flags.join(", ")
RECURSIVE JoinFlags(_)
JoinFlags(flags) ==
  IF flags = <<>> THEN <<>>
  ELSE IF Len(flags) = 1 THEN FlagText(flags[1])
  ELSE FlagText(flags[1]) \o <<",", " ">> \o JoinFlags(Tail(flags))

\* spamDetector.analyze(prompt) when the URL pattern's lastIndex is
\* startIndex: the result, and the lastIndex the call leaves behind.
Analyze(prompt, startIndex) ==
  LET url == UrlTest(prompt, startIndex)
      flags == SpamFlags(prompt, url.matched)
  IN [isSpam |-> SpamScore(flags) > 40, score |-> SpamScore(flags), flags |-> flags,
      reason |-> JoinFlags(flags), lastIndex |-> url.lastIndex]

(* ---------------- request helpers ---------------- *)

\* text.split(',')[0]: the text before the first comma.
RECURSIVE SplitFirst(_)
SplitFirst(text) ==
  IF text = <<>> \/ Head(text) = "," THEN <<>> ELSE <<Head(text)>> \o SplitFirst(Tail(text))

AddressUnknown == <<"u", "n", "k", "n", "o", "w", "n">>

\* The headers and socket address of a request; an absent one is <<>>.
RequestFrom(forwardedFor, realIp, remoteAddress) ==
  [forwardedFor |-> forwardedFor, realIp |-> realIp, remoteAddress |-> remoteAddress]

\* getClientIp(req): the first element of x-forwarded-for, trimmed, or else
\* x-real-ip, the socket's address, 'unknown'.
GetClientIp(req) ==
  IF Trim(SplitFirst(req.forwardedFor)) # <<>> THEN Trim(SplitFirst(req.forwardedFor))
  ELSE IF req.realIp # <<>> THEN req.realIp
  ELSE IF req.remoteAddress # <<>> THEN req.remoteAddress
  ELSE AddressUnknown

\* sanitizeInput(text): drop < and >, keep 2000 characters, trim.
SanitizeInput(text) ==
  LET kept == SelectSeq(text, LAMBDA c : c \notin {"<", ">"})
  IN Trim(SubSeq(kept, 1, IF Len(kept) < 2000 THEN Len(kept) ELSE 2000))

UserIdChars ==
  {LowerCase[n] : n \in 1..26} \cup {UpperCase[n] : n \in 1..26} \cup Digits \cup {"_", "-"}

\* /^[a-zA-Z0-9_-]{3,50}$/.test(userId)
ValidUserId(userId) ==
  Len(userId) >= 3 /\ Len(userId) <= 50 /\ \A n \in 1..Len(userId) : userId[n] \in UserIdChars

\* A validation that accepts a body without a prompt.
ValidateRequestWithoutPrompt(body) ==
  (IF body.userId = <<>> THEN <<"Missing 'userId'">> ELSE <<>>)
  \o (IF body.prompt # <<>> /\ Len(body.prompt) > 2000
        THEN <<"Prompt too long (max 2000 characters)">> ELSE <<>>)
  \o (IF body.userId # <<>> /\ ~ValidUserId(body.userId)
        THEN <<"Invalid userId format (3-50 chars, alphanumeric, dash, underscore)">> ELSE <<>>)

\* validateRequest(body): the errors, in order; a missing field is <<>>.
ValidateRequest(body) ==
  (IF body.prompt = <<>> THEN <<"Missing 'prompt'">> ELSE <<>>)
  \o (IF body.userId = <<>> THEN <<"Missing 'userId'">> ELSE <<>>)
  \o (IF body.prompt # <<>> /\ Len(body.prompt) > 2000
        THEN <<"Prompt too long (max 2000 characters)">> ELSE <<>>)
  \o (IF body.userId # <<>> /\ ~ValidUserId(body.userId)
        THEN <<"Invalid userId format (3-50 chars, alphanumeric, dash, underscore)">> ELSE <<>>)

\* Math.ceil(sanitizedPrompt.length / 4)
EstimatedTokens(sanitizedPrompt) == CeilDiv(Len(sanitizedPrompt), 4)

(* ---------------- conversation memory ---------------- *)

\* The content of the system message loadMemory puts in a new conversation.
SystemPrompt == <<"Y", "o", "u", " ", "a", "r", "e">>

Message(role, content) == [role |-> role, content |-> content]

MemoryData(userId, lastProject, lastTask, conversation) ==
  [kind |-> "memory", userId |-> userId, lastProject |-> lastProject,
   lastTask |-> lastTask, conversation |-> conversation]

\* loadMemory(userId) on the user's memory file f.
LoadMemory(f, userId) ==
  IF Readable(f)
    THEN f.data
    ELSE MemoryData(userId, <<>>, <<>>, <<Message("system", SystemPrompt)>>)

\* A saveMemory that writes the conversation as it is.
TrimConversationNever(conversation) == conversation

\* The conversation saveMemory writes: trimmed when longer than 25.
TrimConversation(conversation) ==
  LET systems == {n \in 1..Len(conversation) : conversation[n].role = "system"}
      recentMsgs == SubSeq(conversation, Len(conversation) - 23, Len(conversation))
  IN IF Len(conversation) > 25
       THEN IF systems # {}
              THEN <<conversation[CHOOSE n \in systems : \A m \in systems : n <= m]>> \o recentMsgs
              ELSE recentMsgs
       ELSE conversation

\* saveMemory(userId, memory) at time t: the file afterwards.
SaveMemory(mem, t) ==
  File([mem EXCEPT !.conversation = TrimConversation(@)], t)

\* The phrases POST removes from a reply: /as an ai|language model|i am ai|i'm an ai/gi
RemovedPhrases == <<<<"a", "s", " ", "a", "n", " ", "a", "i">>, <<"l", "a", "n", "g", "u", "a", "g", "e", " ", "m", "o", "d", "e", "l">>, <<"i", " ", "a", "m", " ", "a", "i">>, <<"i", "'", "m", " ", "a", "n", " ", "a", "i">>>>

RECURSIVE RemovePhrases(_)
RemovePhrases(text) ==
  LET hits == {n \in 1..Len(RemovedPhrases) : OccursAt(ToLowerCase(text), 1, RemovedPhrases[n])}
  IN IF text = <<>> THEN <<>>
     ELSE IF hits # {}
       THEN RemovePhrases(SubSeq(text, 1 + Len(RemovedPhrases[CHOOSE n \in hits : \A m \in hits : n <= m]),
                                 Len(text)))
       ELSE <<Head(text)>> \o RemovePhrases(Tail(text))

CleanResponse(fullResponse) == Trim(RemovePhrases(fullResponse))

(* ---------------- history (not program state) ---------------- *)

\* The window keys one request counts against.
KeysOfRequest(userId, ip) ==
  {MinuteKey(userId, ip), HourKey(userId, ip), BurstKey(userId, ip), IpKey(ip)}

\* served[k]: the requests admitted so far inside the window that key k's
\* file holds; the window is open while the file is readable and the clock
\* has not passed its resetAt.
WindowOpen(f, t) == Readable(f) /\ t <= f.data.resetAt

ServedAfter(sv, fs, keys, t) ==
  [k \in WindowKeys |->
     IF k \in keys THEN (IF WindowOpen(fs[k], t) THEN sv[k] + 1 ELSE 1) ELSE sv[k]]

NoCall == [op |-> "none"]

(* ---------------- initial states ---------------- *)

\* 23:59:00 UTC of a day: one minute before a UTC midnight.
StartTime == DayMs - MinuteWindowMs

\* Token amounts of the requests (ceil(promptLength / 4) of a short prompt).
RequestTokens == {10}

\* A window record one admission short of refusing: the state after that
\* many admitted requests in a window that closes gap ms after StartTime.
NearLimit(count, windowMs, gap) ==
  File(WindowData(count, StartTime + gap, StartTime + gap - windowMs), StartTime)

MinuteStates == {NoFile, NearLimit(requestsPerMinute - 1, MinuteWindowMs, 1000)}
HourStates == {NoFile, NearLimit(requestsPerHour - 1, HourWindowMs, 10000)}
BurstStates == {NoFile, NearLimit(burstMax - 1, burstWindowMs, 1)}
IpStates == {NoFile, NearLimit(IpMax, HourWindowMs, 60000)}
TokenStates == {NoFile, File(Corrupt, StartTime), File(TokenData(dailyTokens - 10), StartTime)}

\* Stores of the first user on the one address; the second user is new.
InitialStores ==
  {[k \in AllKeys |->
      IF k = MinuteKey(UserAna, IpOne) THEN m
      ELSE IF k = HourKey(UserAna, IpOne) THEN h
      ELSE IF k = BurstKey(UserAna, IpOne) THEN b
      ELSE IF k = IpKey(IpOne) THEN i
      ELSE IF k = TokenKey(UserAna) THEN t
      ELSE NoFile] :
     m \in MinuteStates, h \in HourStates, b \in BurstStates, i \in IpStates, t \in TokenStates}

Init ==
  /\ now = StartTime
  /\ files \in InitialStores
  /\ memory = [u \in Users |-> NoFile]
  /\ lastIndex = 0
  /\ served = [k \in WindowKeys |-> IF Readable(files[k]) THEN files[k].data.count ELSE 0]
  /\ last = NoCall
  /\ prev = NoCall
  /\ ops = 0
  /\ calls = [c \in CallIds |-> IdleCall]

(* ---------------- actions ---------------- *)

\* Time passes between two operations.
Deltas == {1, 1000, 10000, 60000}

Advance(d) ==
  /\ ops < MaxOps
  /\ now' = now + d
  /\ ops' = ops + 1
  /\ UNCHANGED <<calls, files, memory, lastIndex, last, prev, served>>

\* rateLimiter.checkLimit(userId, ip, tokens): the reads at the current
\* time, the writes d ms later.
CheckLimit(userId, ip, tokens, d) ==
  LET limits == CheckPhase(files, userId, ip, tokens, now)
  IN /\ ops < MaxOps
     /\ now' = now + d
     /\ files' = AfterCheckLimit(files, limits, userId, ip, tokens, now + d)
     /\ served' = IF limits.allowed
                    THEN ServedAfter(served, files, KeysOfRequest(userId, ip), now + d)
                    ELSE served
     /\ last' = [op |-> "checkLimit", userId |-> userId, ip |-> ip, tokens |-> tokens,
                 at |-> now, doneAt |-> now + d, limits |-> limits, pre |-> files,
                 servedPre |-> served]
     /\ prev' = last
     /\ ops' = ops + 1
     /\ UNCHANGED <<calls, memory, lastIndex>>

\* rateLimiter.checkLimit(userId, ip, tokens) when the writes of the keys in
\* failed throw (disk full, directory removed): returned is the verdict the
\* caller receives, threw whether the call ended in an exception instead.
CheckLimitWithFailures(userId, ip, tokens, failed) ==
  LET limits == CheckPhase(files, userId, ip, tokens, now)
      after == AfterCheckLimitWithFailures(files, limits, userId, ip, tokens, now, failed)
  IN /\ ops < MaxOps
     /\ files' = after.files
     /\ served' = IF limits.allowed
                    THEN ServedAfter(served, files, KeysOfRequest(userId, ip) \ failed, now)
                    ELSE served
     /\ last' = [op |-> "checkLimit", userId |-> userId, ip |-> ip, tokens |-> tokens,
                 at |-> now, doneAt |-> now, limits |-> limits, pre |-> files,
                 servedPre |-> served, failed |-> failed, threw |-> after.threw]
     /\ prev' = last
     /\ ops' = ops + 1
     /\ UNCHANGED <<calls, now, memory, lastIndex>>

\* rateLimiter.updateDailyTokens(`tokens_${userId}`, amount), called alone.
UpdateDailyTokensCall(userId, amount) ==
  /\ ops < MaxOps
  /\ files' = [files EXCEPT ![TokenKey(userId)] = UpdateDailyTokens(@, now, amount)]
  /\ last' = [op |-> "updateDailyTokens", userId |-> userId, tokens |-> amount,
              at |-> now, pre |-> files]
  /\ prev' = last
  /\ ops' = ops + 1
  /\ UNCHANGED <<calls, now, memory, lastIndex, served>>

\* The prompts of the requests: a question of 40 characters and a text of
\* three denylisted keywords.
PromptQuestion ==
  <<"r", "e", "c", "o", "m", "m", "e", "n", "d", " ", "a", " ", "g", "o", "o", "d", " ", "m", "o", "v", "i", "e", " ", "f", "o", "r", " ", "t", "h", "i", "s", " ", "w", "e", "e", "k", "e", "n", "d", "?">>
PromptSpam == <<"c", "a", "s", "i", "n", "o", " ", "b", "i", "t", "c", "o", "i", "n", " ", "x", "x", "x">>
Prompts == {PromptQuestion, PromptSpam}

\* The text of a successful downstream reply.
ReplyText == <<"A", "s", " ", "a", "n", " ", "A", "I", " ", "O", "K", " ">>

\* Tables of the request texts, each entry computed once: the sanitized
\* prompt, its analysis for every lastIndex, the cleaned reply.
SanitizedPrompt == [p \in Prompts \cup {<<>>} |-> SanitizeInput(p)]

\* The texts of direct calls of spamDetector.analyze: a text with a URL,
\* one character 20 times (a letter, a digit), the empty text, one
\* character, nine distinct characters, thirty distinct characters, an
\* offer of likes, two denylisted keywords.
TextOffer == <<"B", "u", "y", " ", "l", "i", "k", "e", "s">>
TextTwoKeywords == <<"p", "o", "r", "n", " ", "x", "x", "x">>
TextUrl == <<"g", "o", " ", "h", "t", "t", "p", ":", "/", "/", "a", ".", "b">>
TextDistinct9 == <<"a", "b", "c", "d", "e", "f", "g", "h", "i">>
TextDistinct30 == LowerCase \o <<"0", "1", "2", "3">>
AnalyzeTexts ==
  {TextUrl, Repeat("a", 20), Repeat("7", 20), <<>>, <<"a">>, TextDistinct9, TextDistinct30,
   TextOffer, TextTwoKeywords, PromptSpam}

\* Every text analyze is called on.
AnalyzedTexts == AnalyzeTexts \cup {SanitizedPrompt[p] : p \in Prompts \cup {<<>>}}

\* analyze(text) for every value of the URL pattern's lastIndex; a lastIndex
\* past the end of the text acts as the one just past it.
SpamAnalysis == [text \in AnalyzedTexts |-> [n \in 0..(Len(text) + 1) |-> Analyze(text, n)]]
AnalyzeAt(text, index) == SpamAnalysis[text][IF index > Len(text) THEN Len(text) + 1 ELSE index]
CleanedReply == CleanResponse(ReplyText)

\* How the downstream call of an admitted request ends: the key is not set,
\* a reply, a non-OK response, the 30 s abort, a thrown network error.
Outcomes == {"noKey", "ok", "nonOk", "abort", "networkError"}

\* The response of POST: status and code.
Response(status, code) == [status |-> status, code |-> code]

\* The 429 of a prompt classified as spam: body and Retry-After header.
SpamResponse ==
  [status |-> 429, code |-> "SPAM_DETECTED", retryAfter |-> 60,
   headers |-> [RetryAfter |-> <<"6", "0">>]]

\* A rate-limit response with the Retry-After of the spam response.
RateLimitResponseFixedDelay(rateLimit) ==
  [status |-> 429, code |-> "RATE_LIMITED",
   violations |-> rateLimit.violations,
   retryAfter |-> rateLimit.retryAfter,
   headers |-> [XRateLimitLimit |-> NumberToString(requestsPerMinute),
                XRateLimitRemaining |-> <<"0">>,
                XRateLimitReset |-> NumberToString(rateLimit.resetAt \div MsPerSecond),
                RetryAfter |-> <<"6", "0">>]]

\* The 429 of a checkLimit denial: body and rate-limit headers.
RateLimitResponse(rateLimit) ==
  [status |-> 429, code |-> "RATE_LIMITED",
   violations |-> rateLimit.violations,
   retryAfter |-> rateLimit.retryAfter,
   headers |-> [XRateLimitLimit |-> NumberToString(requestsPerMinute),
                XRateLimitRemaining |-> <<"0">>,
                XRateLimitReset |-> NumberToString(rateLimit.resetAt \div MsPerSecond),
                RetryAfter |-> NumberToString(rateLimit.retryAfter)]]

\* What a handler records for a gate it did not run.
NotRun == [run |-> FALSE]

\* A handler that lets a prompt classified as spam through.
PassesSpamGateAlways(errors, spamAnalysis) == errors = <<>>

\* POST goes on to the admission gate: the body is valid and the spam
\* branch did not return.
PassesSpamGate(errors, spamAnalysis) == errors = <<>> /\ ~spamAnalysis.isSpam

\* POST(req) with body {prompt, userId}, from address ip; outcome is how the
\* downstream call ends if the request reaches it; the writes of checkLimit
\* and the refund happen d ms after the reads; failed is the set of keys
\* whose writes throw.
\* memory.lastTask = sanitizedPrompt; memory.conversation.push({role: "user", ...})
Asked(mem, sanitizedPrompt) ==
  [mem EXCEPT !.lastTask = sanitizedPrompt,
              !.conversation = Append(@, Message("user", sanitizedPrompt))]

\* memory.conversation.push({role: "assistant", content: cleanResponse})
Answered(mem, cleanResponse) ==
  [mem EXCEPT !.conversation = Append(@, Message("assistant", cleanResponse))]

\* A handler that saves the memory of every admitted request.
SavesMemoryAlways(admitted, outcome) == admitted

\* saveMemory is reached only after an OK downstream response.
SavesMemory(admitted, outcome) == admitted /\ outcome = "ok"

\* A refund that gives nothing back.
RefundNothing(estimatedTokens) == 0

\* The amount of the refund on a non-OK downstream response.
RefundAmount(estimatedTokens) == -estimatedTokens

Post(body, ip, outcome, d, failed) ==
  LET errors == ValidateRequest(body)
      sanitizedPrompt == SanitizedPrompt[body.prompt]
      spamAnalysis == AnalyzeAt(sanitizedPrompt, lastIndex)
      estimatedTokens == EstimatedTokens(sanitizedPrompt)
      rateLimit == CheckPhase(files, body.userId, ip, estimatedTokens, now)
      committed == AfterCheckLimitWithFailures(files, rateLimit, body.userId, ip,
                                               estimatedTokens, now + d, failed)
      charged == committed.files
      refunded == WriteFileSync([files |-> charged, threw |-> FALSE], TokenKey(body.userId),
                                UpdateDailyTokens(charged[TokenKey(body.userId)], now + d,
                                                  RefundAmount(estimatedTokens)),
                                failed).files
      loaded == LoadMemory(memory[body.userId], body.userId)
      asked == Asked(loaded, sanitizedPrompt)
      answered == Answered(asked, CleanedReply)
      valid == errors = <<>>
      passed == PassesSpamGate(errors, spamAnalysis)
      admitted == passed /\ rateLimit.allowed /\ ~committed.threw
      response ==
        IF ~valid THEN Response(400, "VALIDATION")
        ELSE IF spamAnalysis.isSpam THEN SpamResponse
        ELSE IF ~rateLimit.allowed THEN RateLimitResponse(rateLimit)
        ELSE IF committed.threw THEN Response(500, "INTERNAL_ERROR")
        ELSE IF outcome = "noKey" THEN Response(500, "INTERNAL_ERROR")
        ELSE IF outcome = "nonOk" THEN Response(502, "AI_SERVICE_ERROR")
        ELSE IF outcome = "abort" THEN Response(504, "TIMEOUT")
        ELSE IF outcome = "networkError" THEN Response(500, "INTERNAL_ERROR")
        ELSE Response(200, "OK")
  IN /\ ops < MaxOps
     /\ now' = IF passed THEN now + d ELSE now
     /\ lastIndex' = IF valid THEN spamAnalysis.lastIndex ELSE lastIndex
     /\ files' = IF ~(passed /\ rateLimit.allowed) THEN files
                 ELSE IF admitted /\ outcome = "nonOk" THEN refunded
                 ELSE charged
     /\ served' = IF passed /\ rateLimit.allowed
                    THEN ServedAfter(served, files, KeysOfRequest(body.userId, ip) \ failed,
                                     now + d)
                    ELSE served
     /\ memory' = IF SavesMemory(admitted, outcome)
                    THEN [memory EXCEPT ![body.userId] = SaveMemory(answered, now + d)]
                    ELSE memory
     /\ last' = [op |-> "POST", userId |-> body.userId, ip |-> ip,
                 promptLength |-> Len(body.prompt),
                 tokens |-> IF valid THEN estimatedTokens ELSE 0, at |-> now,
                 admitted |-> admitted,
                 outcome |-> IF admitted THEN outcome ELSE "none",
                 refund |-> IF admitted /\ outcome = "nonOk"
                              THEN RefundAmount(estimatedTokens) ELSE 0,
                 spam |-> IF valid THEN [run |-> TRUE, result |-> spamAnalysis] ELSE NotRun,
                 limits |-> IF passed THEN [run |-> TRUE, result |-> rateLimit] ELSE NotRun,
                 forwarded |-> admitted /\ outcome # "noKey",
                 response |-> response, pre |-> files, memoryPre |-> memory,
                 lastIndexPre |-> lastIndex, failed |-> failed,
                 saved |-> IF SavesMemory(admitted, outcome)
                             THEN [run |-> TRUE, conversation |-> answered.conversation]
                             ELSE NotRun]
     /\ prev' = last
     /\ ops' = ops + 1
     /\ UNCHANGED calls

\* A POST that waits for the downstream response: what it keeps meanwhile.
FetchingCall(userId, ip, tokens, t, asked) ==
  [phase |-> "fetching", userId |-> userId, ip |-> ip, tokens |-> tokens, t |-> t,
   asked |-> asked]

\* POST(req) of a question up to `await fetch(...)`: validation, the spam
\* gate, checkLimit with its charge, loadMemory and the push of the user
\* message. A request that is denied ends here and waits for nothing.
PostUntilFetch(c, userId, ip) ==
  LET sanitizedPrompt == SanitizedPrompt[PromptQuestion]
      spamAnalysis == AnalyzeAt(sanitizedPrompt, lastIndex)
      estimatedTokens == EstimatedTokens(sanitizedPrompt)
      rateLimit == CheckPhase(files, userId, ip, estimatedTokens, now)
      committed == AfterCheckLimitWithFailures(files, rateLimit, userId, ip,
                                               estimatedTokens, now, {})
      asked == Asked(LoadMemory(memory[userId], userId), sanitizedPrompt)
      admitted == PassesSpamGate(<<>>, spamAnalysis) /\ rateLimit.allowed
  IN /\ ops < MaxOps
     /\ calls[c].phase = "idle"
     /\ \A d \in CallIds : d < c => calls[d].phase # "idle"
     /\ lastIndex' = spamAnalysis.lastIndex
     /\ files' = IF admitted THEN committed.files ELSE files
     /\ served' = IF admitted
                    THEN ServedAfter(served, files, KeysOfRequest(userId, ip), now)
                    ELSE served
     /\ calls' = IF admitted
                   THEN [calls EXCEPT ![c] = FetchingCall(userId, ip, estimatedTokens, now, asked)]
                   ELSE calls
     /\ last' = [op |-> "POSTuntilFetch", userId |-> userId, ip |-> ip,
                 tokens |-> estimatedTokens, at |-> now, admitted |-> admitted,
                 pre |-> files, memoryPre |-> memory]
     /\ prev' = last
     /\ ops' = ops + 1
     /\ UNCHANGED <<now, memory>>

\* POST(req) from the downstream response on: the refund of a non-OK
\* response, or the push of the reply and saveMemory.
PostAfterFetch(c, outcome) ==
  LET call == calls[c]
      refund == RefundAmount(call.tokens)
  IN /\ ops < MaxOps
     /\ call.phase = "fetching"
     /\ files' = IF outcome = "nonOk"
                   THEN [files EXCEPT ![TokenKey(call.userId)] = UpdateDailyTokens(@, now, refund)]
                   ELSE files
     /\ memory' = IF outcome = "ok"
                    THEN [memory EXCEPT
                            ![call.userId] = SaveMemory(Answered(call.asked, CleanedReply), now)]
                    ELSE memory
     /\ calls' = [calls EXCEPT ![c] = IdleCall]
     /\ last' = [op |-> "POSTafterFetch", userId |-> call.userId, ip |-> call.ip,
                 tokens |-> call.tokens, at |-> now, outcome |-> outcome,
                 refund |-> IF outcome = "nonOk" THEN refund ELSE 0,
                 pre |-> files, memoryPre |-> memory]
     /\ prev' = last
     /\ ops' = ops + 1
     /\ UNCHANGED <<now, lastIndex, served>>

\* spamDetector.analyze(text), called alone.
AnalyzeCall(text) ==
  LET result == AnalyzeAt(text, lastIndex)
  IN /\ ops < MaxOps
     /\ lastIndex' = result.lastIndex
     /\ last' = [op |-> "analyze", text |-> text,
                 result |-> [isSpam |-> result.isSpam, score |-> result.score,
                             flags |-> result.flags, reason |-> result.reason],
                 lastIndexPre |-> lastIndex]
     /\ prev' = last
     /\ ops' = ops + 1
     /\ UNCHANGED <<calls, now, files, memory, served>>

(* ---------------- the handler of generate.js ---------------- *)

\* loadMemory(userId) of generate.js on the user's memory file f.
GenerateLoadMemory(f, userId) ==
  IF Readable(f)
    THEN f.data
    ELSE MemoryData(userId, <<>>, <<>>, <<Message("system", SystemPrompt)>>)

\* saveMemory(userId, memory) of generate.js at time t: nothing is trimmed.
GenerateSaveMemory(mem, t) == File(mem, t)

\* fullResponse.replace(/as an ai|language model/gi, "")
RECURSIVE GenerateCleanText(_)
GenerateCleanText(text) ==
  LET phrases == SubSeq(RemovedPhrases, 1, 2)
      hits == {n \in 1..Len(phrases) : OccursAt(ToLowerCase(text), 1, phrases[n])}
  IN IF text = <<>> THEN <<>>
     ELSE IF hits # {}
       THEN GenerateCleanText(SubSeq(text, 1 + Len(phrases[CHOOSE n \in hits : \A m \in hits : n <= m]),
                                     Len(text)))
       ELSE <<Head(text)>> \o GenerateCleanText(Tail(text))

GenerateCleanedReply == GenerateCleanText(ReplyText)

\* How the fetch of generate.js ends: a reply, a non-OK response, a throw.
GenerateOutcomes == {"ok", "nonOk", "networkError"}

\* The statuses of a non-OK downstream response.
UpstreamStatuses == {400, 503}

\* handler(req, res) of generate.js for a POST with body {prompt, userId}:
\* outcome is how the fetch ends, status the status of a non-OK response.
Generate(body, outcome, status) ==
  LET present == body.prompt # <<>> /\ body.userId # <<>>
      loaded == GenerateLoadMemory(memory[body.userId], body.userId)
      asked == [loaded EXCEPT !.lastTask = body.prompt,
                              !.conversation = Append(@, Message("user", body.prompt))]
      answered == [asked EXCEPT !.conversation =
                     Append(@, Message("assistant", GenerateCleanedReply))]
      response ==
        IF ~present THEN Response(400, "Missing prompt or userId.")
        ELSE IF outcome = "nonOk" THEN Response(status, "upstream error text")
        ELSE IF outcome = "networkError" THEN Response(500, "Server error.")
        ELSE Response(200, "reply")
  IN /\ ops < MaxOps
     /\ memory' = IF present /\ outcome = "ok"
                    THEN [memory EXCEPT ![body.userId] = GenerateSaveMemory(answered, now)]
                    ELSE memory
     /\ last' = [op |-> "generate", userId |-> body.userId, at |-> now,
                 outcome |-> IF present THEN outcome ELSE "none",
                 spam |-> NotRun, limits |-> NotRun,
                 forwarded |-> present,
                 response |-> response, pre |-> files, memoryPre |-> memory,
                 lastIndexPre |-> lastIndex]
     /\ prev' = last
     /\ ops' = ops + 1
     /\ UNCHANGED <<calls, now, files, lastIndex, served>>

\* rateLimiter.cleanup(), run by the interval timer: reversed chooses the
\* order of the directory listing, vanished the listed files that another
\* process removes during the sweep.
CleanupCall(reversed, vanished) ==
  LET existing == ReadDir({k \in AllKeys : Exists(files[k])})
      listed == IF reversed THEN Reverse(existing) ELSE existing
      swept == Cleanup(files, now, listed, vanished)
  IN /\ ops < MaxOps
     /\ files' = swept.files
     /\ last' = [op |-> "cleanup", at |-> now, vanished |-> vanished,
                 completed |-> ~swept.stopped, pre |-> files, memoryPre |-> memory]
     /\ prev' = last
     /\ ops' = ops + 1
     /\ UNCHANGED <<calls, now, memory, lastIndex, served>>

\* The name of the file of a key in RATE_LIMIT_DIR.
FileName(key) == key \o <<".", "j", "s", "o", "n">>

\* A request starts a call of checkLimit: Date.now() is read.
StartCall(c, userId, ip, tokens) ==
  /\ calls[c].phase = "idle"
  /\ \A b \in 1..(c - 1) : calls[b].phase # "idle"
  /\ calls' = [calls EXCEPT ![c] = StartedCall(userId, ip, tokens, now)]
  /\ UNCHANGED <<now, files, memory, lastIndex, last, prev, served, ops>>

\* A call in progress makes its next file-system call.
CallStep(c) ==
  /\ InFlight(calls[c])
  /\ LET after == StepOfCall(calls[c], files, now)
     IN /\ calls' = [calls EXCEPT ![c] = after.call]
        /\ files' = after.files
  /\ UNCHANGED <<now, memory, lastIndex, last, prev, served, ops>>

\* A call in progress runs to its next await, the other calls of the
\* process waiting in the microtask queue. served counts the call when its
\* checks end with allowed = true.
CallRunsToAwait(c) ==
  /\ InFlight(calls[c])
  /\ LET after == RunToAwait(calls[c], files, now)
         admittedNow == calls[c].phase = "check" /\ after.call.phase = "update"
     IN /\ calls' = [calls EXCEPT ![c] = after.call]
        /\ files' = after.files
        /\ served' = IF admittedNow
                       THEN ServedAfter(served, files,
                                        KeysOfRequest(calls[c].userId, calls[c].ip), now)
                       ELSE served
  /\ UNCHANGED <<now, memory, lastIndex, last, prev, ops>>

\* The rate-limit files whose name includes the user id.
FilesOfUser == [u \in Users |-> {k \in AllKeys : Includes(FileName(k), u)}]

\* An admin deletion of userId's data lists the directory: readdirSync and
\* the filter on the names.
AdminDeleteLists(userId) ==
  /\ last = NoCall
  /\ last' = [op |-> "adminDelete", userId |-> userId,
              listed |-> {k \in FilesOfUser[userId] : Exists(files[k])}]
  /\ UNCHANGED <<now, files, memory, lastIndex, prev, served, ops, calls>>

\* One fs.unlinkSync of the deletion's forEach, the listing taken in any
\* order; on a file that is gone it throws into the deletion's catch, which
\* ends the deletion.
AdminUnlink(key) ==
  /\ last.op = "adminDelete"
  /\ key \in last.listed
  /\ files' = [files EXCEPT ![key] = NoFile]
  /\ last' = [last EXCEPT !.listed = IF Exists(files[key]) THEN @ \ {key} ELSE {}]
  /\ UNCHANGED <<now, memory, lastIndex, prev, served, ops, calls>>

\* One statSync and unlinkSync of a cleanup sweep.
CleanupUnlink(key) ==
  /\ Exists(files[key])
  /\ files[key].mtime < now - HourWindowMs
  /\ files' = [files EXCEPT ![key] = NoFile]
  /\ UNCHANGED <<now, memory, lastIndex, last, prev, served, ops, calls>>

(* ---------------- the admin surfaces ---------------- *)

Bearer == <<"B", "e", "a", "r", "e", "r", " ">>

\* A verifyAdminToken that does not test whether ADMIN_TOKEN is set.
VerifyAdminTokenUnset(authHeader, adminToken) ==
  IF authHeader = <<>> \/ ~OccursAt(authHeader, 1, Bearer) THEN FALSE
  ELSE LET token == SubSeq(authHeader, 8, Len(authHeader))
       IN IF Len(token) # Len(adminToken) THEN FALSE ELSE token = adminToken

\* verifyAdminToken(authHeader), ADMIN_TOKEN being adminToken (<<>> when it
\* is not set; an absent header is <<>>). crypto.timingSafeEqual throws on
\* buffers of different lengths, and the catch returns false.
VerifyAdminToken(authHeader, adminToken) ==
  IF authHeader = <<>> \/ ~OccursAt(authHeader, 1, Bearer) THEN FALSE
  ELSE IF adminToken = <<>> THEN FALSE
  ELSE LET token == SubSeq(authHeader, 8, Len(authHeader))
       IN IF Len(token) # Len(adminToken) THEN FALSE ELSE token = adminToken

\* The rate-limit files deleteUserMemory and adminDeleteUser remove: those
\* whose name includes userId.
DeleteRateLimitFiles(fs, userId) ==
  [k \in DOMAIN fs |-> IF Exists(fs[k]) /\ Includes(FileName(k), userId) THEN NoFile ELSE fs[k]]

\* fs.unlinkSync of memory_<userId>.json if it exists.
DeleteMemoryFile(mem, userId) ==
  [u \in DOMAIN mem |-> IF u = userId THEN NoFile ELSE mem[u]]

\* What the responses show of the persisted state; NoData for none.
NoData == [kind |-> "none"]
StatsData(fs, mem) ==
  [kind |-> "stats",
   memoryCount |-> Cardinality({u \in DOMAIN mem : Exists(mem[u])}),
   rateLimitCount |-> Cardinality({k \in DOMAIN fs : Exists(fs[k])})]
UserEntry(mem, u) ==
  [userId |-> u, lastTask |-> mem[u].data.lastTask,
   conversationLength |-> Len(mem[u].data.conversation)]
UsersData(mem) ==
  [kind |-> "users", users |-> {UserEntry(mem, u) : u \in {v \in DOMAIN mem : Exists(mem[v])}}]
UserData(mem, userId) ==
  IF userId \in DOMAIN mem /\ Exists(mem[userId])
    THEN [kind |-> "user", user |-> UserEntry(mem, userId)]
    ELSE [kind |-> "error", error |-> "User not found"]

\* What an admin request gives: the response and the state afterwards.
AdminResult(status, data, fs, mem) ==
  [status |-> status, data |-> data, files |-> fs, memory |-> mem]

\* handler(req, res) of admin/route.js; an absent userId is <<>>.
AdminHandler(method, action, userId, authHeader, adminToken, fs, mem) ==
  IF method = "OPTIONS" THEN AdminResult(200, NoData, fs, mem)
  ELSE IF action # "health" /\ ~VerifyAdminToken(authHeader, adminToken)
    THEN AdminResult(401, NoData, fs, mem)
  ELSE IF method = "GET" THEN
    CASE action = "health" -> AdminResult(200, NoData, fs, mem)
      [] action = "stats" -> AdminResult(200, StatsData(fs, mem), fs, mem)
      [] action = "users" -> AdminResult(200, UsersData(mem), fs, mem)
      [] action = "user" ->
           IF userId = <<>> THEN AdminResult(400, NoData, fs, mem)
           ELSE AdminResult(200, UserData(mem, userId), fs, mem)
      [] OTHER -> AdminResult(200, NoData, fs, mem)
  ELSE IF method = "DELETE" /\ action = "delete" THEN
    IF userId = <<>> THEN AdminResult(400, NoData, fs, mem)
    ELSE AdminResult(200, NoData, DeleteRateLimitFiles(fs, userId), DeleteMemoryFile(mem, userId))
  ELSE IF method = "POST" /\ action = "clearAll" THEN
    AdminResult(200, NoData, [k \in DOMAIN fs |-> NoFile], [u \in DOMAIN mem |-> NoFile])
  ELSE AdminResult(404, NoData, fs, mem)

\* GET(req) of maxmovies/route.js.
MaxMoviesGet(action, userId, authHeader, adminToken, fs, mem) ==
  IF action = "health" THEN AdminResult(200, NoData, fs, mem)
  ELSE IF ~VerifyAdminToken(authHeader, adminToken) /\ action # "health"
    THEN AdminResult(401, NoData, fs, mem)
  ELSE CASE action = "stats" -> AdminResult(200, StatsData(fs, mem), fs, mem)
         [] action = "users" -> AdminResult(200, UsersData(mem), fs, mem)
         [] action = "user" ->
              IF userId = <<>> THEN AdminResult(400, NoData, fs, mem)
              ELSE AdminResult(200, UserData(mem, userId), fs, mem)
         [] OTHER -> AdminResult(200, NoData, fs, mem)

\* DELETE(req) of maxmovies/route.js.
MaxMoviesDelete(action, userId, authHeader, adminToken, fs, mem) ==
  IF ~VerifyAdminToken(authHeader, adminToken) THEN AdminResult(401, NoData, fs, mem)
  ELSE IF action = "delete" THEN
    IF userId = <<>> THEN AdminResult(400, NoData, fs, mem)
    ELSE AdminResult(200, NoData, DeleteRateLimitFiles(fs, userId), DeleteMemoryFile(mem, userId))
  ELSE AdminResult(400, NoData, fs, mem)

\* handler(req) of maxmovies/route.js for the methods other than POST.
MaxMoviesHandler(method, action, userId, authHeader, adminToken, fs, mem) ==
  CASE method = "GET" -> MaxMoviesGet(action, userId, authHeader, adminToken, fs, mem)
    [] method = "DELETE" -> MaxMoviesDelete(action, userId, authHeader, adminToken, fs, mem)
    [] method = "OPTIONS" -> AdminResult(200, NoData, fs, mem)
    [] OTHER -> AdminResult(405, NoData, fs, mem)

\* One request to an admin surface ("admin": admin/route.js, "maxmovies":
\* the methods other than POST of maxmovies/route.js). adminToken is ADMIN_TOKEN as
\* the request finds it. The operation before it is not remembered.
AdminRequest(surface, method, action, userId, authHeader, adminToken) ==
  LET result ==
        IF surface = "admin"
          THEN AdminHandler(method, action, userId, authHeader, adminToken, files, memory)
          ELSE MaxMoviesHandler(method, action, userId, authHeader, adminToken, files, memory)
  IN /\ ops < MaxOps
     /\ files' = result.files
     /\ memory' = result.memory
     /\ last' = [op |-> "admin", surface |-> surface, method |-> method, action |-> action,
                 userId |-> userId, authHeader |-> authHeader, adminToken |-> adminToken,
                 response |-> [status |-> result.status, data |-> result.data],
                 at |-> now, pre |-> files, memoryPre |-> memory]
     /\ prev' = NoCall
     /\ ops' = ops + 1
     /\ UNCHANGED <<calls, now, lastIndex, served>>

TimePasses == \E d \in Deltas : Advance(d)

CheckLimitCalled ==
  \E u \in Users, i \in Ips, t \in RequestTokens, d \in 0..MaxDrift : CheckLimit(u, i, t, d)

\* The amounts charged and refunded: the tokens of the question and of a
\* prompt of the longest length, 2000 characters.
ChargeAmounts == RequestTokens \cup {500}

ChargeCalled == \E u \in Users, t \in ChargeAmounts : UpdateDailyTokensCall(u, t)

RefundCalled == \E u \in Users, t \in ChargeAmounts : UpdateDailyTokensCall(u, -t)

\* The admission gate alone: sequential checkLimit calls as time passes.
NextLimiter == TimePasses \/ CheckLimitCalled

SpecLimiter == Init /\ [][NextLimiter]_vars

\* The caller of a denied checkLimit waits the retryAfter seconds it was
\* given.
RetryAfterWaited ==
  /\ last.op = "checkLimit"
  /\ ~last.limits.allowed
  /\ Advance(1000 * last.limits.retryAfter)

\* The admission gate with callers that retry when they were told to.
NextRetry == TimePasses \/ CheckLimitCalled \/ RetryAfterWaited

SpecRetry == Init /\ [][NextRetry]_vars

\* The token budget tracker alone: charges and refunds as time passes.
NextTokens == TimePasses \/ ChargeCalled \/ RefundCalled

SpecTokens == Init /\ [][NextTokens]_vars

\* Requests whose reads and writes fall in the same millisecond.
PostCalled ==
  \E u \in Users, i \in Ips, p \in Prompts, o \in Outcomes :
    Post([prompt |-> p, userId |-> u], i, o, 0, {})

\* The POST handler alone: sequential requests as time passes, for a user
\* who is new or one request away from the minute limit, the daily budget
\* or both.
NextPost == TimePasses \/ PostCalled

InitPost ==
  /\ Init
  /\ \A k \in WindowKeys \ {MinuteKey(UserAna, IpOne)} : files[k] = NoFile
  /\ files[TokenKey(UserAna)] # File(Corrupt, StartTime)

SpecPost == InitPost /\ [][NextPost]_vars

AnalyzeCalled == \E text \in AnalyzeTexts : AnalyzeCall(text)

\* The spam classifier alone: calls of analyze on the shared instance.
InitAnalyze == Init /\ \A k \in AllKeys : files[k] = NoFile

SpecAnalyze == InitAnalyze /\ [][AnalyzeCalled]_vars

\* Requests to generate.js: the prompts of POST and a missing prompt.
GenerateCalled ==
  \E u \in Users, p \in Prompts \cup {<<>>}, o \in GenerateOutcomes, st \in UpstreamStatuses :
    Generate([prompt |-> p, userId |-> u], o, st)

\* The two handlers that call the generative-language API.
NextHandlers == TimePasses \/ PostCalled \/ GenerateCalled

SpecHandlers == InitPost /\ [][NextHandlers]_vars

\* Bodies validateRequest rejects: no prompt, no userId, a prompt of 2001
\* characters, a userId of 2 characters, of 51 characters, with a space.
InvalidBodies ==
  {[prompt |-> <<>>, userId |-> UserAna],
   [prompt |-> PromptQuestion, userId |-> <<>>],
   [prompt |-> Repeat("a", 2001), userId |-> UserAna],
   [prompt |-> PromptQuestion, userId |-> <<"a", "b">>],
   [prompt |-> PromptQuestion, userId |-> Repeat("a", 51)],
   [prompt |-> PromptQuestion, userId |-> <<"a", "n", " ", "a">>]}

PostInvalidCalled ==
  \E body \in InvalidBodies, i \in Ips, o \in Outcomes : Post(body, i, o, 0, {})

\* Requests with the question as prompt that the downstream call answers.
PostAnsweredCalled ==
  \E u \in Users, i \in Ips : Post([prompt |-> PromptQuestion, userId |-> u], i, "ok", 0, {})

\* The POST handler for answered requests and for malformed ones.
NextValidation == TimePasses \/ PostAnsweredCalled \/ PostInvalidCalled

SpecValidation == InitPost /\ [][NextValidation]_vars

\* The admin token and what requests present: no header, the token, a
\* wrong token of the same length, a shorter one, an empty token while
\* ADMIN_TOKEN is not set.
AdminSecret == <<"k", "e", "y">>
Credentials ==
  {[authHeader |-> <<>>, adminToken |-> AdminSecret],
   [authHeader |-> Bearer \o AdminSecret, adminToken |-> AdminSecret],
   [authHeader |-> Bearer \o <<"k", "e", "x">>, adminToken |-> AdminSecret],
   [authHeader |-> Bearer \o <<"k">>, adminToken |-> AdminSecret],
   [authHeader |-> Bearer, adminToken |-> <<>>]}

\* Method and action of the requests to admin/route.js.
AdminRoutes ==
  {<<m, "health">> : m \in {"GET", "POST", "DELETE", "OPTIONS"}}
    \cup {<<"GET", a>> : a \in {"stats", "users", "user", "none"}}
    \cup {<<"DELETE", "delete">>, <<"POST", "clearAll">>, <<"OPTIONS", "clearAll">>,
          <<"POST", "delete">>}

AdminHandlerCalled ==
  \E r \in AdminRoutes, c \in Credentials :
    AdminRequest("admin", r[1], r[2], UserAna, c.authHeader, c.adminToken)

MaxMoviesGetCalled ==
  \E a \in {"health", "stats", "users", "user", "none"}, c \in Credentials :
    AdminRequest("maxmovies", "GET", a, UserAna, c.authHeader, c.adminToken)

MaxMoviesDeleteCalled ==
  \E a \in {"health", "delete"}, c \in Credentials :
    AdminRequest("maxmovies", "DELETE", a, UserAna, c.authHeader, c.adminToken)

\* Requests to maxmovies/route.js with a method it has no function for.
MaxMoviesOtherCalled ==
  \E m \in {"OPTIONS", "PUT"}, c \in Credentials :
    AdminRequest("maxmovies", m, "delete", UserAna, c.authHeader, c.adminToken)

\* The admin surfaces over the state that answered requests leave.
NextAdmin ==
  PostAnsweredCalled \/ AdminHandlerCalled \/ MaxMoviesGetCalled \/ MaxMoviesDeleteCalled
  \/ MaxMoviesOtherCalled

SpecAdmin == InitAnalyze /\ [][NextAdmin]_vars

\* An hour passes.
HourPasses == Advance(HourWindowMs)

\* Answered requests whose writes are made up to MaxDrift ms after the reads.
PostSlowCalled ==
  \E u \in Users, i \in Ips, d \in 0..MaxDrift :
    Post([prompt |-> PromptQuestion, userId |-> u], i, "ok", d, {})

\* The files that vanish during a sweep: none, one, two.
VanishedFiles ==
  {{}, {TokenKey(UserBob)}, {MinuteKey(UserAna, IpOne), IpKey(IpOne)}}

CleanupCalled ==
  \E reversed \in BOOLEAN, vanished \in VanishedFiles :
    /\ \A k \in vanished : Exists(files[k])
    /\ CleanupCall(reversed, vanished)

\* The sweep of the interval timer among answered requests, hours apart.
NextCleanup == HourPasses \/ PostSlowCalled \/ CleanupCalled

SpecCleanup == InitPost /\ [][NextCleanup]_vars

PostUntilFetchCalled == \E c \in CallIds, u \in Users, i \in Ips : PostUntilFetch(c, u, i)

PostAfterFetchCalled == \E c \in CallIds, o \in {"ok", "nonOk"} : PostAfterFetch(c, o)

\* An hour passes while no request waits for the downstream service, whose
\* fetch is aborted after 30 seconds.
HourPassesIdle == (\A c \in CallIds : calls[c].phase = "idle") /\ HourPasses

\* An authorized per-user deletion on either admin surface.
AdminDeleteCalled ==
  \E surface \in {"admin", "maxmovies"}, u \in Users :
    AdminRequest(surface, "DELETE", "delete", u, Bearer \o AdminSecret, AdminSecret)

SweepCalled == CleanupCall(FALSE, {})

\* Requests that wait for the downstream service while other requests,
\* admin deletions and sweeps of the same process run.
NextPending ==
  TimePasses \/ HourPassesIdle \/ PostUntilFetchCalled \/ PostAfterFetchCalled
  \/ AdminDeleteCalled \/ SweepCalled

SpecPending == InitPost /\ [][NextPending]_vars

\* A record of the first user written more than an hour ago.
OldHourRecord ==
  File(WindowData(1, StartTime - 1, StartTime - 1 - HourWindowMs), StartTime - 1 - HourWindowMs)

\* The store the races start from: the address one request short of
\* refusing, and an hour record of the first user that is due for the sweep.
InitRace ==
  /\ now = StartTime
  /\ files = [k \in AllKeys |->
                IF k = IpKey(IpOne) THEN NearLimit(IpMax, HourWindowMs, 60000)
                ELSE IF k = HourKey(UserAna, IpOne) THEN OldHourRecord
                ELSE NoFile]
  /\ memory = [u \in Users |-> NoFile]
  /\ lastIndex = 0
  /\ served = [k \in WindowKeys |-> IF Readable(files[k]) THEN files[k].data.count ELSE 0]
  /\ last = NoCall
  /\ prev = NoCall
  /\ ops = 0
  /\ calls = [c \in CallIds |-> IdleCall]

\* The two calls come from the two users on the one address: they share
\* the address's key and differ in the four others.
CallerOf == <<UserAna, UserBob>>

StartCallCalled == \E c \in CallIds, t \in RequestTokens : StartCall(c, CallerOf[c], IpOne, t)

CallStepTaken == \E c \in CallIds : CallStep(c)

AdminDeleteStarted == \E u \in Users : AdminDeleteLists(u)

AdminUnlinkTaken == \E k \in AllKeys : AdminUnlink(k)

CleanupUnlinkTaken == \E k \in AllKeys : CleanupUnlink(k)

\* Calls of checkLimit racing one another, a sweep and admin deletions,
\* one file-system call at a time, within one millisecond.
NextRace ==
  StartCallCalled \/ CallStepTaken \/ AdminDeleteStarted \/ AdminUnlinkTaken
  \/ CleanupUnlinkTaken

SpecRace == InitRace /\ [][NextRace]_vars

\* Every process is scheduled: a call in progress makes its next
\* file-system call sooner or later.
SpecRaceFair == SpecRace /\ \A c \in CallIds : WF_vars(CallStep(c))

\* The memory file of a user after n answered requests with the question
\* as prompt, starting from no file.
RECURSIVE MemoryAfter(_, _)
MemoryAfter(userId, n) ==
  IF n = 0 THEN NoFile
  ELSE SaveMemory(Answered(Asked(LoadMemory(MemoryAfter(userId, n - 1), userId),
                                 SanitizedPrompt[PromptQuestion]),
                           CleanedReply),
                  StartTime)

\* The numbers of earlier answered requests: none, and those that leave 23
\* and 25 messages (25 being what every later request leaves too).
EarlierRequests == {0, 11, 12, 13}

InitMemory ==
  /\ now = StartTime
  /\ files \in {fs \in InitialStores :
                  /\ \A k \in AllKeys \ {MinuteKey(UserAna, IpOne)} : fs[k] = NoFile}
  /\ memory \in {[u \in Users |-> IF u = UserAna THEN MemoryAfter(u, n) ELSE NoFile] :
                   n \in EarlierRequests}
  /\ lastIndex = 0
  /\ served = [k \in WindowKeys |-> IF Readable(files[k]) THEN files[k].data.count ELSE 0]
  /\ last = NoCall
  /\ prev = NoCall
  /\ ops = 0
  /\ calls = [c \in CallIds |-> IdleCall]

\* Requests of the first user: the question with every downstream outcome,
\* the spam prompt, and the malformed bodies.
PostOfAnaCalled ==
  \/ \E o \in Outcomes : Post([prompt |-> PromptQuestion, userId |-> UserAna], IpOne, o, 0, {})
  \/ Post([prompt |-> PromptSpam, userId |-> UserAna], IpOne, "ok", 0, {})
  \/ \E body \in InvalidBodies : Post(body, IpOne, "ok", 0, {})

\* The POST handler over conversations of every length it can leave.
NextMemory == PostOfAnaCalled

SpecMemory == InitMemory /\ [][NextMemory]_vars

\* The stores the calls of one process start from: the first user's burst
\* window and token record are new, or near their limits.
InitAwait ==
  /\ Init
  /\ \A k \in AllKeys \ {BurstKey(UserAna, IpOne), TokenKey(UserAna)} : files[k] = NoFile

StartSameCalled == \E c \in CallIds, t \in RequestTokens : StartCall(c, UserAna, IpOne, t)

CallRunsToAwaitTaken == \E c \in CallIds : CallRunsToAwait(c)

\* Two calls of checkLimit for the same user and address in one process,
\* interleaved at every await.
NextAwait == StartSameCalled \/ CallRunsToAwaitTaken

SpecAwait == InitAwait /\ [][NextAwait]_vars

\* Requests that come through a proxy: x-forwarded-for holds the address
\* the client sent, followed by the address the proxy saw.
ProxyAddress == <<"9", ".", "9">>
ForwardedRequests ==
  {RequestFrom(<<" ">> \o i \o <<",", " ">> \o ProxyAddress, <<>>, ProxyAddress) : i \in ForwardedIps}

\* checkLimit as POST calls it, the address being getClientIp(req).
CheckLimitForwardedCalled ==
  \E u \in ForwardedUsers, req \in ForwardedRequests, t \in RequestTokens :
    CheckLimit(u, GetClientIp(req), t, 0)

\* The admission gate for requests with forwarded addresses, on an empty store.
NextForwarded == TimePasses \/ CheckLimitForwardedCalled

SpecForwarded == InitAnalyze /\ [][NextForwarded]_vars

\* Authorized per-user deletions of each user on either admin surface.
PurgeCalled ==
  \E surface \in {"admin", "maxmovies"}, u \in Users \cup ForwardedUsers :
    AdminRequest(surface, "DELETE", "delete", u, Bearer \o AdminSecret, AdminSecret)

\* Per-user purges over the records and memories that requests of three
\* users leave.
NextPurge == CheckLimitForwardedCalled \/ PostAnsweredCalled \/ PurgeCalled

SpecPurge == InitAnalyze /\ [][NextPurge]_vars

\* The sets of failing writes of one call: each of the five alone, and all.
FailedWrites(userId, ip) ==
  {{k} : k \in KeysOfRequest(userId, ip) \cup {TokenKey(userId)}}
    \cup {KeysOfRequest(userId, ip) \cup {TokenKey(userId)}}

\* Calls of the first user while writes of the store fail.
CheckLimitWithFailuresCalled ==
  \E i \in Ips, t \in RequestTokens :
    \E failed \in FailedWrites(UserAna, i) : CheckLimitWithFailures(UserAna, i, t, failed)

\* Requests of the first user, with the question as prompt, while the write
\* of the minute record, of the token record or of all five records fails.
PostWithFailuresCalled ==
  \E i \in Ips, o \in {"ok", "nonOk"} :
    \E failed \in {f \in FailedWrites(UserAna, i) :
                     MinuteKey(UserAna, i) \in f \/ TokenKey(UserAna) \in f} :
      Post([prompt |-> PromptQuestion, userId |-> UserAna], i, o, 0, failed)

\* The admission gate and the POST handler over a store whose writes fail,
\* the calls following one another in the same millisecond.
NextStorage == CheckLimitWithFailuresCalled \/ PostWithFailuresCalled

SpecStorage == InitPost /\ [][NextStorage]_vars

Next ==
  TimePasses \/ CheckLimitCalled \/ ChargeCalled \/ RefundCalled \/ PostCalled \/ GenerateCalled
  \/ AnalyzeCalled \/ CheckLimitWithFailuresCalled \/ PostWithFailuresCalled
  \/ CheckLimitForwardedCalled \/ PostInvalidCalled \/ PostAnsweredCalled
  \/ AdminHandlerCalled \/ MaxMoviesGetCalled \/ MaxMoviesDeleteCalled \/ MaxMoviesOtherCalled
  \/ HourPasses \/ PostSlowCalled \/ CleanupCalled
  \/ StartCallCalled \/ CallStepTaken \/ AdminDeleteStarted \/ AdminUnlinkTaken
  \/ CleanupUnlinkTaken \/ PostOfAnaCalled \/ StartSameCalled \/ CallRunsToAwaitTaken
  \/ HourPassesIdle \/ PostUntilFetchCalled \/ PostAfterFetchCalled \/ AdminDeleteCalled
  \/ SweepCalled \/ RetryAfterWaited \/ PurgeCalled

Spec == Init /\ [][Next]_vars

(* ---------------- properties of checkLimit ---------------- *)

IsCheck == last.op = "checkLimit"

\* The five records a checkLimit call reads and may write.
KeysOfCall(userId, ip) == KeysOfRequest(userId, ip) \cup {TokenKey(userId)}

\* Requests admitted so far inside the window that was open, for key k,
\* when the last checkLimit call made its reads (0 if none was open).
ServedBefore(k) == IF WindowOpen(last.pre[k], last.at) THEN last.servedPre[k] ELSE 0

Raised(text) == \E n \in 1..Len(last.limits.violations) : last.limits.violations[n] = text

\* C1: a checkLimit call that returns allowed = false leaves the five
\* records (minute, hour, burst, tokens, ip) exactly as they were before.
C1_DenialLeavesRecords ==
  (IsCheck /\ ~last.limits.allowed) =>
    \A k \in KeysOfCall(last.userId, last.ip) : files[k] = last.pre[k]

C1_Witness ==
  /\ IsCheck
  /\ ~last.limits.allowed
  /\ Len(last.limits.violations) >= 2
  /\ \A k \in KeysOfCall(last.userId, last.ip) : Exists(files[k])

\* C9: in every verdict of checkLimit, allowed is true exactly when the
\* violations list is empty.
C9_AllowedIffNoViolation ==
  IsCheck => (last.limits.allowed <=> last.limits.violations = <<>>)

C9_Witness ==
  /\ IsCheck
  /\ ~last.limits.allowed
  /\ last.limits.violations = <<IpText>>

\* What the last call's reads returned.
ReadCount(k, windowMs) == GetLimit(last.pre[k], last.at, windowMs).count
ReadTokens == GetDailyTokens(last.pre[TokenKey(last.userId)], last.at)

\* The violations the five conditions call for, in the order of the checks.
ExpectedViolations ==
  (IF ReadCount(MinuteKey(last.userId, last.ip), MinuteWindowMs) >= 30
     THEN <<MinuteText>> ELSE <<>>)
  \o (IF ReadCount(HourKey(last.userId, last.ip), HourWindowMs) >= 200
        THEN <<HourText>> ELSE <<>>)
  \o (IF ReadCount(BurstKey(last.userId, last.ip), burstWindowMs) >= 5
        THEN <<BurstText>> ELSE <<>>)
  \o (IF ReadTokens + last.tokens > 100000 THEN <<TokenText>> ELSE <<>>)
  \o (IF ReadCount(IpKey(last.ip), HourWindowMs) > 1000 THEN <<IpText>> ELSE <<>>)

\* C10: checkLimit evaluates all five checks without short-circuit; the
\* violations list holds one entry for each failing condition and no other,
\* in the order minute, hour, burst, daily token, IP.
C10_AllChecksInOrder == IsCheck => last.limits.violations = ExpectedViolations

C10_Witness ==
  /\ IsCheck
  /\ last.limits.violations = <<MinuteText, HourText, BurstText, TokenText, IpText>>

\* C5: whenever today's usage plus the request's tokens exceeds 100000, the
\* verdict is a denial that holds the daily token violation and has
\* retryAfter exactly 86400, whatever the other checks do.
C5_TokenDenial ==
  (IsCheck /\ ReadTokens + last.tokens > dailyTokens) =>
    /\ ~last.limits.allowed
    /\ Raised(TokenText)
    /\ last.limits.retryAfter = 86400

C5_Witness ==
  /\ IsCheck
  /\ ReadTokens + last.tokens > dailyTokens
  /\ Raised(IpText)
  /\ Raised(MinuteText)
  /\ last.limits.retryAfter = 86400

\* C3: inside one open burst window the burst check passes while fewer than
\* 5 requests were admitted in it, and refuses the next request once 5 were,
\* also when the minute and hour checks pass.
C3_BurstWindow ==
  IsCheck =>
    LET n == ServedBefore(BurstKey(last.userId, last.ip))
    IN /\ n < 5 => ~Raised(BurstText)
       /\ n >= 5 => (Raised(BurstText) /\ ~last.limits.allowed)

C3_Witness ==
  /\ IsCheck
  /\ ServedBefore(BurstKey(last.userId, last.ip)) = 5
  /\ last.limits.violations = <<BurstText>>
  /\ ReadCount(MinuteKey(last.userId, last.ip), MinuteWindowMs) < 30
  /\ ReadCount(HourKey(last.userId, last.ip), HourWindowMs) < 200

\* C4: the per-IP check admits exactly 1000 requests inside one
\* IP hour window and refuses the 1001st.
C4_IpRefuses1001st ==
  IsCheck =>
    LET n == ServedBefore(IpKey(last.ip))
    IN /\ n < 1000 => ~Raised(IpText)
       /\ n >= 1000 => (Raised(IpText) /\ ~last.limits.allowed)

\* C2: inside one open minute window the minute check passes for
\* the first 30 requests, and the 31st, made while the window is still open
\* (now <= resetAt), is denied with the minute violation and retryAfter > 0.
C2_MinuteWindow ==
  IsCheck =>
    LET n == ServedBefore(MinuteKey(last.userId, last.ip))
    IN /\ n < 30 => ~Raised(MinuteText)
       /\ n >= 30 => (Raised(MinuteText) /\ ~last.limits.allowed /\ last.limits.retryAfter > 0)

\* The time in ms from the call's now to the end of the window read for key k.
TimeLeft(k, windowMs) == GetLimit(last.pre[k], last.at, windowMs).resetAt - last.at

\* For each violation the last call raised, the ms its own retry delay has
\* to cover: the rest of its window, a day for the daily tokens.
RaisedTimes ==
  (IF Raised(MinuteText) THEN {TimeLeft(MinuteKey(last.userId, last.ip), MinuteWindowMs)} ELSE {})
  \cup (IF Raised(HourText) THEN {TimeLeft(HourKey(last.userId, last.ip), HourWindowMs)} ELSE {})
  \cup (IF Raised(BurstText) THEN {TimeLeft(BurstKey(last.userId, last.ip), burstWindowMs)} ELSE {})
  \cup (IF Raised(TokenText) THEN {86400 * 1000} ELSE {})
  \cup (IF Raised(IpText) THEN {TimeLeft(IpKey(last.ip), HourWindowMs)} ELSE {})

\* n is ceil(ms / 1000): the least number of whole seconds that cover ms.
IsCeilSeconds(n, ms) == n * 1000 >= ms /\ (n - 1) * 1000 < ms

\* C11: in every verdict of checkLimit, retryAfter is the largest of the
\* retry delays of the violations raised (ceil((resetAt - now) / 1000) of
\* the window for minute, hour, burst and IP, 86400 for the daily tokens),
\* and 0 when no violation is raised.
C11_RetryAfterIsMax ==
  IsCheck =>
    IF last.limits.violations = <<>>
      THEN last.limits.retryAfter = 0
      ELSE /\ \E ms \in RaisedTimes : IsCeilSeconds(last.limits.retryAfter, ms)
           /\ \A ms \in RaisedTimes : ms <= last.limits.retryAfter * 1000

C11_Witness ==
  /\ IsCheck
  /\ last.limits.violations = <<MinuteText, HourText, BurstText>>
  /\ ~IsCeilSeconds(last.limits.retryAfter, TimeLeft(BurstKey(last.userId, last.ip), burstWindowMs))
  /\ IsCeilSeconds(last.limits.retryAfter, TimeLeft(HourKey(last.userId, last.ip), HourWindowMs))
  /\ TimeLeft(HourKey(last.userId, last.ip), HourWindowMs) % 1000 # 0

\* No record of the last call's five keys was an unreadable file.
NoStorageError ==
  \A k \in KeysOfCall(last.userId, last.ip) : Exists(last.pre[k]) => Readable(last.pre[k])

\* C12: a checkLimit call that returns allowed = true, with no storage
\* error, raises each of the four window counters by exactly 1, or sets it
\* to 1 when its window had expired or was absent, and raises the user's
\* token total by exactly tokens; a call that returns allowed = false
\* updates nothing.
C12_AdmissionIncrements ==
  (IsCheck /\ NoStorageError) =>
    IF last.limits.allowed
      THEN /\ \A k \in KeysOfRequest(last.userId, last.ip) :
                /\ Readable(files[k])
                /\ files[k].data.count =
                     IF WindowOpen(last.pre[k], last.doneAt) THEN last.pre[k].data.count + 1 ELSE 1
           /\ Readable(files[TokenKey(last.userId)])
           /\ files[TokenKey(last.userId)].data.total = ReadTokens + last.tokens
      ELSE \A k \in KeysOfCall(last.userId, last.ip) : files[k] = last.pre[k]

C12_Witness ==
  /\ IsCheck
  /\ NoStorageError
  /\ last.limits.allowed
  /\ last.doneAt > last.at
  /\ files[MinuteKey(last.userId, last.ip)].data.count = requestsPerMinute
  /\ ~Exists(last.pre[HourKey(last.userId, last.ip)])
  /\ Exists(last.pre[BurstKey(last.userId, last.ip)])
  /\ ~WindowOpen(last.pre[BurstKey(last.userId, last.ip)], last.doneAt)
  /\ files[BurstKey(last.userId, last.ip)].data.count = 1
  /\ files[TokenKey(last.userId)].data.total = dailyTokens

(* ---------------- properties of the token budget ---------------- *)

\* The UTC midnight that starts the day of time t.
DayStart(t) == (t \div DayMs) * DayMs

\* C6: a token record written before a UTC midnight is reported by
\* getDailyTokens as 0 when read after that midnight, with no charge between.
C6_MidnightReset ==
  \A u \in Users :
    LET f == files[TokenKey(u)]
    IN (Readable(f) /\ f.mtime < DayStart(now) /\ now > DayStart(now)) =>
         GetDailyTokens(f, now) = 0

IsTokenCall(call) == call.op = "updateDailyTokens"

\* A charge of t on a key followed, with no other operation, by the refund.
ChargeThenRefund ==
  /\ IsTokenCall(prev)
  /\ IsTokenCall(last)
  /\ last.userId = prev.userId
  /\ prev.tokens > 0
  /\ last.tokens = -prev.tokens

\* C7: updateDailyTokens(u, t) followed by updateDailyTokens(u, -t), with
\* no other operation on the key between them, leaves getDailyTokens(u) at
\* its value before the charge, whether the record was absent, present or
\* unreadable.
C7_ChargeRefundRestores ==
  ChargeThenRefund =>
    GetDailyTokens(files[TokenKey(last.userId)], now)
      = GetDailyTokens(prev.pre[TokenKey(prev.userId)], prev.at)

C7_Witness ==
  /\ ChargeThenRefund
  /\ Readable(prev.pre[TokenKey(prev.userId)])
  /\ GetDailyTokens(files[TokenKey(last.userId)], now) = dailyTokens - 10
  /\ now > last.at

(* ---------------- properties of POST ---------------- *)

IsPost == last.op = "POST"

\* C8: for every request POST admits whose downstream generation does not
\* succeed (non-OK response, abort timeout, network error, missing key), the
\* handler refunds the estimatedTokens it charged, so the user's token total
\* is the same after the request as before it.
C8_FailureRefunds ==
  (IsPost /\ last.admitted /\ last.outcome # "ok") =>
    /\ last.refund = -last.tokens
    /\ GetDailyTokens(files[TokenKey(last.userId)], now)
         = GetDailyTokens(last.pre[TokenKey(last.userId)], last.at)

(* ---------------- properties of the request handlers ---------------- *)

IsGenerate == last.op = "generate"

\* C13: every call a request handler makes to the generative-language API
\* is preceded, for the same request, by a spam analysis with isSpam = false
\* and by a checkLimit verdict with allowed = true.
C13_GatesBeforeDownstream ==
  ((IsPost \/ IsGenerate) /\ last.forwarded) =>
    /\ last.spam.run
    /\ ~last.spam.result.isSpam
    /\ last.limits.run
    /\ last.limits.result.allowed

\* C14: in POST the spam classifier runs before the admission gate: for a
\* request whose sanitized prompt is classified isSpam = true, checkLimit
\* is not called, every counter and token record is unchanged, the
\* conversation memory is unchanged and no downstream call is made.
C14_SpamStopsBeforeGate ==
  (IsPost /\ last.spam.run /\ last.spam.result.isSpam) =>
    /\ ~last.limits.run
    /\ files = last.pre
    /\ memory = last.memoryPre
    /\ ~last.forwarded

C14_Witness ==
  /\ IsPost
  /\ last.spam.run
  /\ last.spam.result.isSpam
  /\ last.response.code = "SPAM_DETECTED"
  /\ prev.op = "POST"
  /\ prev.userId = last.userId
  /\ prev.response.status = 200
  /\ Exists(memory[last.userId])

(* ---------------- properties of the spam classifier ---------------- *)

IsAnalyze(call) == call.op = "analyze"

\* C15: analyze is a pure function of its input: two calls analyze(text) on
\* the shared spamDetector return the same score, flags, reason and isSpam,
\* whatever calls were made before them.
C15_AnalyzeIsPure ==
  (IsAnalyze(last) /\ IsAnalyze(prev) /\ last.text = prev.text) => last.result = prev.result

\* 1 if b holds, 0 otherwise.
Indicator(b) == IF b THEN 1 ELSE 0

\* The number of flags of one kind in the last analyze result.
FlagCount(kind) ==
  Cardinality({n \in 1..Len(last.result.flags) : last.result.flags[n][1] = kind})

HasFlag(flag) == \E n \in 1..Len(last.result.flags) : last.result.flags[n] = flag

\* The place of a flag in the order length, patterns by index, keywords by
\* list order, entropy, repetition.
FlagRank(flag) ==
  CASE flag[1] = "too_short" -> 0
    [] flag[1] = "too_long" -> 1
    [] flag[1] = "pattern" -> 2 + flag[2]
    [] flag[1] = "keyword" ->
         10 + (CHOOSE k \in 1..Len(suspiciousKeywords) : suspiciousKeywords[k] = flag[2])
    [] flag[1] = "high_entropy" -> 100
    [] flag[1] = "repetition" -> 101

\* Where the text of flag n starts in the reason (0-based).
RECURSIVE ReasonOffset(_)
ReasonOffset(n) ==
  IF n = 1 THEN 0 ELSE ReasonOffset(n - 1) + Len(FlagText(last.result.flags[n - 1])) + 2

\* reason is the flags' texts in the order of flags, with ", " between.
ReasonJoinsFlags ==
  LET flags == last.result.flags
      reason == last.result.reason
  IN IF flags = <<>> THEN reason = <<>>
     ELSE /\ Len(reason) = ReasonOffset(Len(flags)) + Len(FlagText(flags[Len(flags)]))
          /\ \A n \in 1..Len(flags) : OccursAt(reason, ReasonOffset(n) + 1, FlagText(flags[n]))
          /\ \A n \in 2..Len(flags) :
               reason[ReasonOffset(n) - 1] = "," /\ reason[ReasonOffset(n)] = " "

\* C16: for every input of analyze, score = 20*[too_short] + 15*[too_long]
\* + 25*(pattern flags) + 20*(keyword flags) + 30*[high_entropy]
\* + 10*(repetition matches), every signal being evaluated whatever the
\* others gave; isSpam holds exactly when score > 40; reason is the flags
\* joined with ", " in the order length, patterns by index, keywords by list
\* order, entropy, repetition.
C16_ScoreIsSumOfSignals ==
  IsAnalyze(last) =>
    LET text == last.text
        r == last.result
        lower == ToLowerCase(text)
        repeatedChars == RepetitionsFrom(text, 1)
    IN /\ r.score = 20 * FlagCount("too_short") + 15 * FlagCount("too_long")
                    + 25 * FlagCount("pattern") + 20 * FlagCount("keyword")
                    + 30 * FlagCount("high_entropy") + 10 * repeatedChars
       /\ FlagCount("too_short") = Indicator(Len(text) < 2)
       /\ FlagCount("too_long") = Indicator(Len(text) > 2000)
       /\ \A i \in {0, 2, 3, 4} : HasFlag(<<"pattern", i>>) <=> PatternMatches(text, i, FALSE)
       /\ \A k \in 1..Len(suspiciousKeywords) :
            HasFlag(<<"keyword", suspiciousKeywords[k]>>) <=> Includes(lower, suspiciousKeywords[k])
       /\ FlagCount("keyword")
            = Cardinality({k \in 1..Len(suspiciousKeywords) : Includes(lower, suspiciousKeywords[k])})
       /\ FlagCount("high_entropy") = Indicator(HighEntropy(text))
       /\ FlagCount("repetition") = Indicator(repeatedChars > 0)
       /\ repeatedChars > 0 => HasFlag(<<"repetition", repeatedChars>>)
       /\ r.isSpam <=> r.score > 40
       /\ \A n \in 1..(Len(r.flags) - 1) : FlagRank(r.flags[n]) < FlagRank(r.flags[n + 1])
       /\ ReasonJoinsFlags

C16_Witness ==
  /\ IsAnalyze(last)
  /\ last.result.isSpam
  /\ ops = MaxOps
  /\ last.result.score = 60
  /\ FlagCount("pattern") = 2
  /\ FlagCount("repetition") = 1
  /\ IsAnalyze(prev)
  /\ prev.result.flags = <<<<"high_entropy">>>>
  /\ ~prev.result.isSpam

\* text is one non-whitespace character repeated 20 times.
IsRepeated20(text) ==
  /\ Len(text) = 20
  /\ text[1] \notin Whitespace
  /\ \A n \in 1..20 : text[n] = text[1]

\* C17: analyze of one non-whitespace character repeated 20 times scores at
\* least 25, the repeated-character pattern being flagged, and is isSpam
\* only when further signals raise the score above 40; analyze of the empty
\* text and of a text of one character scores at least 20 with too_short.
C17_RepeatedAndShortTexts ==
  IsAnalyze(last) =>
    /\ IsRepeated20(last.text) =>
         /\ last.result.score >= 25
         /\ HasFlag(<<"pattern", 3>>)
         /\ last.result.isSpam =>
              (last.result.score > 40 /\ FlagCount("pattern") + FlagCount("keyword") >= 2)
    /\ Len(last.text) < 2 =>
         /\ last.result.score >= 20
         /\ HasFlag(<<"too_short">>)

C17_Witness ==
  /\ IsAnalyze(last)
  /\ IsRepeated20(last.text)
  /\ last.result.isSpam
  /\ last.result.score = 60
  /\ IsAnalyze(prev)
  /\ prev.text = <<>>
  /\ prev.result.score = 20
  /\ prev.result.flags = <<<<"too_short">>>>

\* text is made of a single repeated character.
IsSingleCharacter(text) == text # <<>> /\ \A n \in 1..Len(text) : text[n] = text[1]

\* C18: calculateEntropy returns 0 for every text shorter than 10
\* characters and for every text made of a single repeated character, so
\* analyze never adds the high_entropy flag for such texts.
C18_NoEntropyForShortOrUniform ==
  (IsAnalyze(last) /\ (Len(last.text) < 10 \/ IsSingleCharacter(last.text))) =>
    /\ EntropyTimesLength(last.text) = 0
    /\ ~HasFlag(<<"high_entropy">>)

C18_Witness ==
  /\ IsAnalyze(last)
  /\ IsSingleCharacter(last.text)
  /\ Len(last.text) >= 10
  /\ ~HasFlag(<<"high_entropy">>)
  /\ IsAnalyze(prev)
  /\ prev.text = TextDistinct9
  /\ prev.result.flags = <<>>

(* ---------------- properties of the responses of POST ---------------- *)

\* The number a text of decimal digits denotes.
RECURSIVE DecimalValue(_)
DecimalValue(text) ==
  IF text = <<>> THEN 0
  ELSE 10 * DecimalValue(SubSeq(text, 1, Len(text) - 1))
       + (CHOOSE d \in 0..9 : Digits10[d + 1] = text[Len(text)])

\* C19: POST answers a spam denial with HTTP 429 and code SPAM_DETECTED, and
\* a rate-limit denial with HTTP 429 and code RATE_LIMITED, the Retry-After
\* header and the retryAfter field both equal to the verdict's retryAfter
\* and the violations field equal to the verdict's violations.
C19_DenialResponses ==
  IsPost =>
    /\ (last.spam.run /\ last.spam.result.isSpam) =>
         (last.response.status = 429 /\ last.response.code = "SPAM_DETECTED")
    /\ (last.limits.run /\ ~last.limits.result.allowed) =>
         /\ last.response.status = 429
         /\ last.response.code = "RATE_LIMITED"
         /\ last.response.retryAfter = last.limits.result.retryAfter
         /\ \A n \in 1..Len(last.response.headers.RetryAfter) :
              last.response.headers.RetryAfter[n] \in Digits
         /\ DecimalValue(last.response.headers.RetryAfter) = last.limits.result.retryAfter
         /\ last.response.violations = last.limits.result.violations

C19_Witness ==
  /\ IsPost
  /\ last.response.code = "RATE_LIMITED"
  /\ last.limits.result.violations = <<MinuteText>>
  /\ last.limits.result.retryAfter = 1
  /\ prev.op = "POST"
  /\ prev.response.code = "SPAM_DETECTED"

(* ---------------- properties of the counter store ---------------- *)

\* A record that cannot be parsed, written at the start of the behaviour.
CorruptFile == File(Corrupt, StartTime)

WindowSizes == {MinuteWindowMs, HourWindowMs, burstWindowMs}

\* getLimit and updateLimit treat an unreadable record as an absent one.
WindowsCorruptAsAbsent ==
  \A w \in WindowSizes :
    /\ GetLimit(CorruptFile, now, w) = GetLimit(NoFile, now, w)
    /\ UpdateLimit(CorruptFile, now, now, w) = UpdateLimit(NoFile, now, now, w)

\* getDailyTokens treats an unreadable record as an absent one.
TokenReadCorruptAsAbsent == GetDailyTokens(CorruptFile, now) = GetDailyTokens(NoFile, now)

\* C20: for getLimit, updateLimit, getDailyTokens and updateDailyTokens,
\* running the operation on a corrupted or unreadable record gives the same
\* return value and the same persisted record afterwards as running it on
\* an absent record.
C20_CorruptAsAbsent ==
  /\ WindowsCorruptAsAbsent
  /\ TokenReadCorruptAsAbsent
  /\ (IsTokenCall(last) /\ last.pre[TokenKey(last.userId)] = CorruptFile) =>
       files[TokenKey(last.userId)] = UpdateDailyTokens(NoFile, last.at, last.tokens)

(* ---------------- properties of storage failures ---------------- *)

\* The record updateLimit or updateDailyTokens computes for key k in the
\* commit phase of the last call.
CommittedRecord(k) ==
  IF k = TokenKey(last.userId) THEN UpdateDailyTokens(last.pre[k], last.at, last.tokens)
  ELSE IF k = MinuteKey(last.userId, last.ip) THEN UpdateLimit(last.pre[k], last.at, last.at, MinuteWindowMs)
  ELSE IF k = BurstKey(last.userId, last.ip) THEN UpdateLimit(last.pre[k], last.at, last.at, burstWindowMs)
  ELSE UpdateLimit(last.pre[k], last.at, last.at, HourWindowMs)

\* The last operation is a checkLimit call, alone or inside POST, whose
\* checks all passed and of which some write failed.
AllowedWithFailedWrite ==
  /\ last.op \in {"checkLimit", "POST"}
  /\ last.failed # {}
  /\ IF IsPost THEN last.limits.run /\ last.limits.result.allowed ELSE last.limits.allowed

\* C21: if any of the five writes fails during the commit phase of an
\* allowed checkLimit call, the call still returns allowed = true with no
\* exception, the remaining writes are still made, and the request goes on
\* to downstream processing.
C21_WriteFailureIsNotFatal ==
  AllowedWithFailedWrite =>
    /\ \A k \in KeysOfCall(last.userId, last.ip) :
         files[k] = IF k \in last.failed THEN last.pre[k]
                    ELSE IF IsPost /\ last.outcome = "nonOk" /\ k = TokenKey(last.userId)
                      THEN UpdateDailyTokens(CommittedRecord(k), last.at, -last.tokens)
                    ELSE CommittedRecord(k)
    /\ IsCheck => ~last.threw
    /\ IsPost => (last.admitted /\ last.forwarded /\ last.response.status \in {200, 502})

C21_Witness ==
  /\ AllowedWithFailedWrite
  /\ IsPost
  /\ last.failed = {MinuteKey(last.userId, last.ip)}
  /\ last.response.status = 200
  /\ ~Exists(files[MinuteKey(last.userId, last.ip)])
  /\ Exists(files[IpKey(last.ip)])
  /\ Exists(memory[last.userId])
  /\ prev.op = "checkLimit"
  /\ prev.limits.allowed
  /\ Cardinality(prev.failed) = 5
  /\ ~prev.threw

(* ---------------- properties of the store keys ---------------- *)

\* The per-(user, ip) keys of a checkLimit call.
PairKeys(call) ==
  {MinuteKey(call.userId, call.ip), HourKey(call.userId, call.ip), BurstKey(call.userId, call.ip)}

\* The last two operations are checkLimit calls of different (userId, ip)
\* pairs whose user ids have the valid format.
CallsOfTwoPairs ==
  /\ IsCheck
  /\ prev.op = "checkLimit"
  /\ <<prev.userId, prev.ip>> # <<last.userId, last.ip>>
  /\ ValidUserId(prev.userId)
  /\ ValidUserId(last.userId)

\* C22: two requests with different (userId, clientIp) pairs have different
\* minute, hour and burst keys, so the request of one pair never reads or
\* changes the per-(user, ip) counters of the other pair.
C22_PairsHaveOwnCounters ==
  CallsOfTwoPairs =>
    /\ PairKeys(last) \cap PairKeys(prev) = {}
    /\ \A k \in PairKeys(prev) : files[k] = last.pre[k]

(* ---------------- properties of request validation ---------------- *)

\* The body of the last POST has no prompt, no userId, a prompt longer than
\* 2000 characters or a userId that is not 3 to 50 characters of letters,
\* digits, dash and underscore.
Malformed ==
  \/ last.promptLength = 0
  \/ last.userId = <<>>
  \/ last.promptLength > 2000
  \/ Len(last.userId) < 3
  \/ Len(last.userId) > 50
  \/ \E n \in 1..Len(last.userId) : last.userId[n] \notin UserIdChars

\* C23: a POST request with a missing prompt, a missing userId, a prompt
\* longer than 2000 characters or a userId of the wrong format is answered
\* with HTTP 400 before the spam classifier and checkLimit run, and leaves
\* every counter, token record and conversation memory unchanged.
C23_MalformedIsRejectedFirst ==
  (IsPost /\ Malformed) =>
    /\ last.response.status = 400
    /\ ~last.spam.run
    /\ lastIndex = last.lastIndexPre
    /\ ~last.limits.run
    /\ files = last.pre
    /\ memory = last.memoryPre
    /\ ~last.forwarded

C23_Witness ==
  /\ IsPost
  /\ last.promptLength = 2001
  /\ last.response.status = 400
  /\ prev.op = "POST"
  /\ prev.userId = last.userId
  /\ prev.response.status = 200
  /\ Exists(memory[last.userId])
  /\ Exists(files[TokenKey(last.userId)])

(* ---------------- properties of the admin surfaces ---------------- *)

IsAdmin == last.op = "admin"

\* The Authorization header of the last request is 'Bearer ' followed by a
\* token equal to ADMIN_TOKEN, and ADMIN_TOKEN is set.
PresentsAdminToken ==
  /\ last.adminToken # <<>>
  /\ last.authHeader = Bearer \o last.adminToken

\* The last request left the persisted state as it was and showed none of it.
NothingChangedOrRevealed ==
  /\ files = last.pre
  /\ memory = last.memoryPre
  /\ last.response.data = NoData

\* C24 as stated: no request changes or reveals persisted state without
\* the admin token; action=health performs no deletion for any method; every
\* request other than action=health without the token is answered 401.
C24_OnlyHealthWithoutToken ==
  IsAdmin =>
    /\ ~PresentsAdminToken => NothingChangedOrRevealed
    /\ last.action = "health" => (files = last.pre /\ memory = last.memoryPre)
    /\ (~PresentsAdminToken /\ last.action # "health") => last.response.status = 401

\* C24, amended: the same, except that both surfaces answer an OPTIONS
\* (preflight) request 200 with an empty body, and maxmovies/route.js a
\* method it has no function for 405, before they verify the token.
C24_AdminNeedsToken ==
  IsAdmin =>
    /\ ~PresentsAdminToken => NothingChangedOrRevealed
    /\ last.action = "health" => (files = last.pre /\ memory = last.memoryPre)
    /\ (~PresentsAdminToken /\ last.action # "health") =>
         \/ last.response.status = 401
         \/ last.method = "OPTIONS" /\ last.response.status = 200
         \/ /\ last.surface = "maxmovies"
            /\ last.method \notin {"GET", "POST", "DELETE", "OPTIONS"}
            /\ last.response.status = 405

C24_Witness ==
  /\ IsAdmin
  /\ ~PresentsAdminToken
  /\ last.method = "DELETE"
  /\ last.action = "delete"
  /\ last.authHeader = Bearer \o <<"k", "e", "x">>
  /\ last.response.status = 401
  /\ Exists(memory[last.userId])
  /\ Exists(files[TokenKey(last.userId)])

(* ---------------- properties of the daily reset ---------------- *)

\* The token record the last updateDailyTokens call found.
ChargedRecord == last.pre[TokenKey(last.userId)]

\* C25: the first updateDailyTokens(u, amount) after a UTC midnight, on a
\* record last written before that midnight, sets total to amount, not to
\* the old total plus amount; every later charge of the same day adds to
\* the total.
C25_FirstChargeOfDayResets ==
  (IsTokenCall(last) /\ Readable(ChargedRecord)) =>
    LET written == files[TokenKey(last.userId)]
    IN /\ Readable(written)
       /\ (ChargedRecord.mtime < DayStart(last.at) /\ last.at > DayStart(last.at)) =>
            written.data.total = last.tokens
       /\ ChargedRecord.mtime >= DayStart(last.at) =>
            written.data.total = ChargedRecord.data.total + last.tokens

(* ---------------- properties of the hour window ---------------- *)

\* C26: inside one open hour window the hour check passes while fewer than
\* 200 requests were admitted in it and refuses the next request once 200
\* were, also when the minute and burst checks pass; the count compared is
\* the one before the increment.
C26_HourWindow ==
  IsCheck =>
    LET n == ServedBefore(HourKey(last.userId, last.ip))
    IN /\ n < 200 => ~Raised(HourText)
       /\ n >= 200 => (Raised(HourText) /\ ~last.limits.allowed)
       /\ ReadCount(HourKey(last.userId, last.ip), HourWindowMs) = n

C26_Witness ==
  /\ IsCheck
  /\ ServedBefore(HourKey(last.userId, last.ip)) = 200
  /\ last.limits.violations = <<HourText>>
  /\ prev.op = "checkLimit"
  /\ prev.userId = last.userId
  /\ prev.limits.allowed
  /\ prev.servedPre[HourKey(last.userId, last.ip)] = 199
  /\ files[HourKey(last.userId, last.ip)].data.count = 200

(* ---------------- properties of updateLimit ---------------- *)

\* The window size updateLimit is called with for key k of the last call.
WindowOf(k) ==
  IF k = MinuteKey(last.userId, last.ip) THEN MinuteWindowMs
  ELSE IF k = BurstKey(last.userId, last.ip) THEN burstWindowMs
  ELSE HourWindowMs

\* The last call was admitted: updateLimit ran on its four window keys at
\* time last.doneAt.
UpdateLimitRan == IsCheck /\ last.limits.allowed

\* C27: when updateLimit runs at a time greater than the stored record's
\* resetAt, the record it writes has count 1, resetAt = now + windowMs and
\* firstRequest = now: a stale count is never incremented into the new window.
C27_ExpiredWindowStartsAtOne ==
  UpdateLimitRan =>
    \A k \in KeysOfRequest(last.userId, last.ip) :
      (Readable(last.pre[k]) /\ last.doneAt > last.pre[k].data.resetAt) =>
        /\ Readable(files[k])
        /\ files[k].data = WindowData(1, last.doneAt + WindowOf(k), last.doneAt)

\* The burst window was open, with 4 requests counted, when the checks read
\* it, and had expired when updateLimit ran.
C27_Witness ==
  /\ UpdateLimitRan
  /\ Readable(last.pre[BurstKey(last.userId, last.ip)])
  /\ last.pre[BurstKey(last.userId, last.ip)].data.count = burstMax - 1
  /\ last.at <= last.pre[BurstKey(last.userId, last.ip)].data.resetAt
  /\ last.doneAt > last.pre[BurstKey(last.userId, last.ip)].data.resetAt
  /\ files[BurstKey(last.userId, last.ip)].data.count = 1
  /\ files[BurstKey(last.userId, last.ip)].data.firstRequest = last.doneAt

\* C28: every counter record written by updateLimit has resetAt strictly
\* greater than the time of that write and count >= 1, also when the write
\* is made at the instant now = resetAt of the stored record.
C28_WrittenWindowEndsLater ==
  UpdateLimitRan =>
    \A k \in KeysOfRequest(last.userId, last.ip) :
      /\ Readable(files[k])
      /\ files[k].mtime = last.doneAt
      /\ files[k].data.count >= 1
      /\ files[k].data.resetAt > files[k].mtime

(* ---------------- properties of the cleanup sweep ---------------- *)

IsCleanup == last.op = "cleanup"

\* C29: a cleanup sweep at time T deletes exactly the rate-limit records
\* whose last write is earlier than T - 3,600,000 ms, leaves every other
\* rate-limit record and every conversation memory file unchanged, and
\* raises no error when a record disappears during the sweep.
C29_SweepDeletesOldRecords ==
  IsCleanup =>
    /\ \A k \in AllKeys \ last.vanished :
         files[k] = IF Exists(last.pre[k]) /\ last.pre[k].mtime < last.at - 3600000
                      THEN NoFile ELSE last.pre[k]
    /\ \A k \in last.vanished : files[k] = NoFile
    /\ memory = last.memoryPre
    /\ last.completed

C29_Witness ==
  /\ IsCleanup
  /\ last.vanished # {}
  /\ \E k \in AllKeys \ last.vanished :
       Exists(last.pre[k]) /\ last.pre[k].mtime < last.at - 3600000 /\ files[k] = NoFile
  /\ \E k \in AllKeys \ last.vanished :
       Exists(last.pre[k]) /\ last.pre[k].mtime = last.at - 3600000 /\ files[k] = last.pre[k]
  /\ \E u \in Users : Exists(memory[u])

(* ---------------- properties of racing calls ---------------- *)

\* C30: for every interleaving of concurrent checkLimit calls, cleanup
\* sweeps and admin deletions, every checkLimit call terminates and returns
\* a verdict; none waits for another, and none fails with an error because
\* of contention.
C30_EveryCallReturns ==
  /\ [](\A c \in CallIds :
         /\ calls[c].phase # "threw"
         /\ InFlight(calls[c]) => ENABLED CallStep(c)
         /\ calls[c].phase = "returned" =>
              (calls[c].limits.allowed <=> calls[c].limits.violations = <<>>))
  /\ \A c \in CallIds : InFlight(calls[c]) ~> (calls[c].phase = "returned")

C30_Witness ==
  \E c, d \in CallIds :
    /\ c # d
    /\ calls[c].phase = "returned" /\ calls[d].phase = "returned"
    /\ "deleted" \in calls[c].saw
    /\ "truncated" \in calls[d].saw
    /\ last.op = "adminDelete"

(* ---------------- properties of POST after admission ---------------- *)

NonOkAfterAdmission == IsPost /\ last.admitted /\ last.outcome = "nonOk"

\* C31: when the downstream call of an admitted request returns a non-OK
\* response, POST changes only the record tokens_<user> (by -estimatedTokens):
\* the minute, hour, burst and IP counters keep the increment made at
\* admission, checkLimit is not run again, and the response is HTTP 502 with
\* code AI_SERVICE_ERROR.
C31_NonOkRefundsOnlyTokens ==
  NonOkAfterAdmission =>
    /\ \A k \in KeysOfRequest(last.userId, last.ip) :
         /\ Readable(files[k])
         /\ files[k].data.count
              = (IF WindowOpen(last.pre[k], last.at) THEN last.pre[k].data.count ELSE 0) + 1
    /\ Readable(files[TokenKey(last.userId)])
    /\ files[TokenKey(last.userId)].data.total
         = (IF Readable(last.pre[TokenKey(last.userId)])
              THEN last.pre[TokenKey(last.userId)].data.total ELSE 0)
           + last.tokens - last.tokens
    /\ last.refund = -last.tokens
    /\ \A k \in AllKeys \ KeysOfCall(last.userId, last.ip) : files[k] = last.pre[k]
    /\ memory = last.memoryPre
    /\ last.response.status = 502
    /\ last.response.code = "AI_SERVICE_ERROR"

C31_Witness ==
  /\ NonOkAfterAdmission
  /\ last.tokens = 10
  /\ Readable(last.pre[TokenKey(last.userId)])
  /\ last.pre[TokenKey(last.userId)].data.total = dailyTokens - 10
  /\ files[TokenKey(last.userId)].data.total = dailyTokens - 10
  /\ files[MinuteKey(last.userId, last.ip)].data.count = requestsPerMinute

(* ---------------- properties of the conversation memory ---------------- *)

Conversation(f) == f.data.conversation

\* The last count messages of a conversation.
LastMessages(conversation, count) ==
  SubSeq(conversation, Len(conversation) - count + 1, Len(conversation))

\* C32: when saveMemory is called with a conversation longer than 25
\* messages, the conversation it persists is the system prompt followed by
\* the last 20 messages.
C32_TrimKeepsLast20 ==
  (IsPost /\ last.saved.run /\ Len(last.saved.conversation) > 25) =>
    Conversation(memory[last.userId])
      = <<Message("system", SystemPrompt)>> \o LastMessages(last.saved.conversation, 20)

(* ---------------- properties of calls in one process ---------------- *)

\* The maximum of the window a key counts.
WindowMaximum(userId, ip) ==
  [k \in {MinuteKey(userId, ip), HourKey(userId, ip), BurstKey(userId, ip)} |->
     IF k = MinuteKey(userId, ip) THEN requestsPerMinute
     ELSE IF k = HourKey(userId, ip) THEN requestsPerHour
     ELSE burstMax]

\* C33: for every interleaving of concurrent checkLimit calls for the same
\* (user, ip) in one process, the number of requests admitted inside one
\* fixed window never exceeds that window's maximum (30, 200, 5) and the
\* stored count never exceeds that maximum.
C33_RacingCallsKeepMaximum ==
  \A k \in DOMAIN WindowMaximum(UserAna, IpOne) :
    /\ served[k] <= WindowMaximum(UserAna, IpOne)[k]
    /\ Readable(files[k]) => files[k].data.count <= WindowMaximum(UserAna, IpOne)[k]

\* C34: in every reachable state, after any sequence and any interleaving
\* of admitted requests, denied requests and refunds, the stored token total
\* of every user is at most 100000.
C34_TokenTotalAtMostDaily ==
  \A u \in Users :
    Readable(files[TokenKey(u)]) => files[TokenKey(u)].data.total <= dailyTokens

\* C35: in every reachable state, after any sequence of admitted requests,
\* refunds on downstream failure, cleanup sweeps and admin deletions (which
\* may run between a request's charge and its refund), the stored token
\* total of every user is greater than or equal to 0.
C35_TokenTotalNotNegative ==
  \A u \in Users :
    Readable(files[TokenKey(u)]) => files[TokenKey(u)].data.total >= 0

(* ---------------- properties of retries ---------------- *)

\* The last two operations were checkLimit calls of the same request, the
\* first denied and the second made retryAfter seconds after it.
IsRetry ==
  /\ IsCheck
  /\ prev.op = "checkLimit"
  /\ ~prev.limits.allowed
  /\ <<last.userId, last.ip, last.tokens>> = <<prev.userId, prev.ip, prev.tokens>>
  /\ last.at = prev.at + 1000 * prev.limits.retryAfter
  /\ last.pre = prev.pre

\* C36: if checkLimit denies a request at time t with retryAfter = r, and
\* the same (user, ip, tokens) request is made again at time t + 1000*r with
\* no other request, sweep or deletion in between, then none of the
\* violations of the first verdict is raised again by the second call.
C36_RetryClearsViolations ==
  IsRetry =>
    \A i \in DOMAIN prev.limits.violations :
      \A j \in DOMAIN last.limits.violations :
        last.limits.violations[j] # prev.limits.violations[i]

(* ---------------- properties of sweeps and purges ---------------- *)

\* C37: a cleanup sweep never changes an admission outcome: for every key,
\* getLimit(key, windowMs) and getDailyTokens(key) return the same count and
\* the same total immediately after a sweep as they would have returned at
\* that time without the sweep.
C37_SweepKeepsWhatIsRead ==
  IsCleanup =>
    /\ \A k \in WindowKeys \ last.vanished :
         \A windowMs \in {MinuteWindowMs, HourWindowMs, burstWindowMs} :
           GetLimit(files[k], now, windowMs).count = GetLimit(last.pre[k], now, windowMs).count
    /\ \A k \in TokenKeys \ last.vanished :
         GetDailyTokens(files[k], now) = GetDailyTokens(last.pre[k], now)

\* The rate-limit records of a user: the minute, hour and burst records of
\* the user's requests from any address, and the token record.
RecordsOf(userId) ==
  {k \in AllKeys :
     \/ k = TokenKey(userId)
     \/ \E i \in Ips \cup ForwardedIps :
          k \in {MinuteKey(userId, i), HourKey(userId, i), BurstKey(userId, i)}}

\* The last operation was a per-user purge that was carried out.
IsPurge ==
  /\ last.op = "admin"
  /\ last.method = "DELETE"
  /\ last.action = "delete"
  /\ last.response.status = 200

\* C38: an admin per-user purge of user U removes U's conversation memory
\* and U's minute, hour, burst and token records, and leaves unchanged
\* every conversation memory and every rate-limit record that belongs to a
\* user other than U.
C38_PurgeLeavesOtherUsers ==
  IsPurge =>
    /\ \A k \in RecordsOf(last.userId) : files[k] = NoFile
    /\ \A v \in DOMAIN memory :
         memory[v] = IF v = last.userId THEN NoFile ELSE last.memoryPre[v]
    /\ \A v \in (Users \cup ForwardedUsers) \ {last.userId} :
         \A k \in RecordsOf(v) \ RecordsOf(last.userId) : files[k] = last.pre[k]

(* ---------------- properties of the persisted memory ---------------- *)

\* The conversation loadMemory gave the last request, followed by the
\* request's user message and the assistant reply.
WithExchange ==
  LoadMemory(last.memoryPre[last.userId], last.userId).conversation
    \o <<Message("user", SanitizedPrompt[PromptQuestion]), Message("assistant", CleanedReply)>>

\* The last request was answered: the downstream call succeeded.
IsAnswered == IsPost /\ last.response.status = 200

\* No request but an answered one changes a memory file, and an answered
\* one changes none but its user's.
OnlyAnsweredSaves ==
  /\ (IsPost /\ ~IsAnswered) => memory = last.memoryPre
  /\ IsAnswered => \A v \in DOMAIN memory \ {last.userId} : memory[v] = last.memoryPre[v]

\* C39 as stated: POST persists a user's conversation memory only when the
\* downstream call succeeds (after any other request it is identical before
\* and after), and for a successful request it gains exactly the user
\* message followed by the assistant reply.
C39_GainsExactlyTheExchange ==
  /\ OnlyAnsweredSaves
  /\ IsAnswered => Conversation(memory[last.userId]) = WithExchange

\* C39, amended: the same, except that a successful request whose
\* conversation, with the user message and the assistant reply at its end,
\* is longer than 25 messages persists the system prompt followed by the
\* last 24 of them.
C39_MemoryOnlyOnSuccess ==
  /\ OnlyAnsweredSaves
  /\ IsAnswered =>
       Conversation(memory[last.userId])
         = IF Len(WithExchange) <= 25 THEN WithExchange
           ELSE <<Message("system", SystemPrompt)>> \o LastMessages(WithExchange, 24)

C39_Witness ==
  /\ IsAnswered
  /\ Len(WithExchange) = 27
  /\ Len(Conversation(memory[last.userId])) = 25
  /\ prev.op = "POST"
  /\ prev.admitted
  /\ prev.outcome = "nonOk"
  /\ prev.memoryPre = last.memoryPre

\* The places of the system messages in a conversation.
SystemMessages(conversation) ==
  {n \in 1..Len(conversation) : conversation[n].role = "system"}

\* C40: after any sequence of successful POST requests of one user starting
\* from no memory file, the persisted conversation has at most 25 messages,
\* contains exactly one system message and that message is the first
\* element.
C40_ConversationBounded ==
  \A u \in DOMAIN memory :
    Exists(memory[u]) =>
      /\ Len(Conversation(memory[u])) <= 25
      /\ SystemMessages(Conversation(memory[u])) = {1}

C40_Witness ==
  /\ IsPost
  /\ last.saved.run
  /\ Exists(last.memoryPre[last.userId])
  /\ Len(Conversation(last.memoryPre[last.userId])) = 25
  /\ Len(last.saved.conversation) = 27
  /\ Len(Conversation(memory[last.userId])) = 25
  /\ Conversation(memory[last.userId])[25].role = "assistant"

====
